---- MODULE Spec2Model ----
(***************************************************************************)
(* Verification model of the testgenai repository: the browser test runner *)
(* (TestRunner.tsx), the dashboard (Dashboard.tsx), the browser backend    *)
(* (lib/backend.ts, lib/api.ts) and the Go backend (testgen-backend).      *)
(* Strings are TLA+ strings; TLC evaluates Len, SubSeq and \o on them, so  *)
(* the text algorithms are modelled character by character.                *)
(***************************************************************************)
EXTENDS Integers, Sequences, FiniteSets, TLC

VARIABLES
  testCases,      \* Dashboard state: the list of test cases
  isRunning,      \* Dashboard state
  isGenerating,   \* Dashboard state
  progress,       \* TestRunner state: <<numerator, denominator>> of the percentage
  currentTest,    \* TestRunner state
  runAll,         \* the runAllTests invocation in flight (its closure and position)
  single,         \* the runSingleTest invocation in flight
  gen,            \* the handleGenerateTests invocation in flight
  fnArg,          \* argument of the function under check (function specifications)
  fnOut,          \* <<>> before the call, <<value>> after it
  cb,             \* the ClientBackend.cloneRepository invocation
  disk,           \* Go backend: the repos/ directory
  hnd,            \* Go backend: the handler invocations in flight
  resp,           \* Go backend: the responses written so far, newest last
  form,           \* Dashboard state: repoUrl, geminiKey, codeInput
  toast           \* the title of the last toast shown

vars == <<testCases, isRunning, isGenerating, progress, currentTest, runAll,
          single, gen, fnArg, fnOut, cb, disk, hnd, resp, form, toast>>

runnerVars == <<testCases, isRunning, isGenerating, progress, currentTest,
                runAll, single, gen, form, toast>>
\* everything but the dashboard and the test runner
nonRunnerVars == <<fnArg, fnOut, cb, disk, hnd, resp>>

(***************************************************************************)
(* Text primitives                                                         *)
(***************************************************************************)
Min(S) == CHOOSE x \in S : \A y \in S : x <= y
Max(S) == CHOOSE x \in S : \A y \in S : x >= y

\* the character at 0-based index i
CharAt(s, i) == SubSeq(s, i + 1, i + 1)

\* the substring [from, to) with 0-based indices, as Go's s[from:to] and
\* JavaScript's s.substring(from, to)
Slice(s, from, to) == SubSeq(s, from + 1, to)

\* does sub occur in s at 0-based index i
OccursAt(s, sub, i) ==
  /\ i >= 0
  /\ i + Len(sub) <= Len(s)
  /\ SubSeq(s, i + 1, i + Len(sub)) = sub

\* strings.Index / String.prototype.indexOf: first occurrence or -1
Index(s, sub) ==
  LET at == {i \in 0..(Len(s) - Len(sub)) : OccursAt(s, sub, i)}
  IN  IF at = {} THEN -1 ELSE Min(at)

\* strings.LastIndex: last occurrence or -1
LastIndex(s, sub) ==
  LET at == {i \in 0..(Len(s) - Len(sub)) : OccursAt(s, sub, i)}
  IN  IF at = {} THEN -1 ELSE Max(at)

\* strings.Contains / String.prototype.includes
Contains(s, sub) == Index(s, sub) # -1

\* strings.HasPrefix / String.prototype.startsWith
HasPrefix(s, p) == OccursAt(s, p, 0)

HasSuffix(s, p) == OccursAt(s, p, Len(s) - Len(p))

\* strings.TrimSuffix, and replace(/\/$/, '') / replace(/\.git$/, '') for a
\* literal suffix
TrimSuffix(s, p) ==
  IF HasSuffix(s, p) THEN Slice(s, 0, Len(s) - Len(p)) ELSE s

\* the text after the last sep, the whole text when sep does not occur:
\* s.split(sep).pop()
AfterLast(s, sep) ==
  IF LastIndex(s, sep) = -1 THEN s
  ELSE Slice(s, LastIndex(s, sep) + Len(sep), Len(s))

\* strings.Split / String.prototype.split for a non-empty separator
RECURSIVE Split(_, _)
Split(s, sep) ==
  IF Index(s, sep) = -1 THEN <<s>>
  ELSE <<Slice(s, 0, Index(s, sep))>>
         \o Split(Slice(s, Index(s, sep) + Len(sep), Len(s)), sep)

UpperLetters == "ABCDEFGHIJKLMNOPQRSTUVWXYZ"
LowerLetters == "abcdefghijklmnopqrstuvwxyz"

LowerChar(c) ==
  IF Contains(UpperLetters, c)
  THEN CharAt(LowerLetters, Index(UpperLetters, c))
  ELSE c

\* strings.ToLower / String.prototype.toLowerCase (ASCII letters)
RECURSIVE ToLower(_)
ToLower(s) ==
  IF Len(s) = 0 THEN s ELSE LowerChar(CharAt(s, 0)) \o ToLower(Slice(s, 1, Len(s)))

\* \s of a regular expression / unicode.IsSpace, on the characters used here
IsSpace(c) == c \in {" ", "\t", "\n", "\r"}

\* strings.TrimSpace / String.prototype.trim
RECURSIVE TrimLeft(_)
TrimLeft(s) ==
  IF Len(s) > 0 /\ IsSpace(CharAt(s, 0)) THEN TrimLeft(Slice(s, 1, Len(s))) ELSE s

RECURSIVE TrimRight(_)
TrimRight(s) ==
  IF Len(s) > 0 /\ IsSpace(CharAt(s, Len(s) - 1))
  THEN TrimRight(Slice(s, 0, Len(s) - 1)) ELSE s

TrimSpace(s) == TrimRight(TrimLeft(s))

(***************************************************************************)
(* JavaScript values, as far as the test runner handles them               *)
(***************************************************************************)
\* A value is a record [t, n, m, s]: t the type, n and m the numeric parts,
\* s the text (the JSON text for an object that is not {a, b}).
JsNull == [t |-> "null", n |-> 0, m |-> 0, s |-> ""]
JsUndefined == [t |-> "undefined", n |-> 0, m |-> 0, s |-> ""]
JsNaN == [t |-> "NaN", n |-> 0, m |-> 0, s |-> ""]
JsPromise == [t |-> "promise", n |-> 0, m |-> 0, s |-> ""]
JsNum(k) == [t |-> "number", n |-> k, m |-> 0, s |-> ""]
JsBool(b) == [t |-> "boolean", n |-> IF b THEN 1 ELSE 0, m |-> 0, s |-> ""]
JsStr(x) == [t |-> "string", n |-> 0, m |-> 0, s |-> x]
\* the object {a: a, b: b}
JsObjAB(a, b) == [t |-> "objectAB", n |-> a, m |-> b, s |-> ""]
\* any other object, held as its JSON text
JsObj(json) == [t |-> "object", n |-> 0, m |-> 0, s |-> json]
\* the BigInt kn
JsBigInt(k) == [t |-> "bigint", n |-> k, m |-> 0, s |-> ""]

Digits == "0123456789"

RECURSIVE NatToStr(_)
NatToStr(k) ==
  IF k < 10 THEN CharAt(Digits, k)
  ELSE NatToStr(k \div 10) \o CharAt(Digits, k % 10)

\* Number.prototype.toString for an integer
NumToStr(k) == IF k < 0 THEN "-" \o NatToStr(0 - k) ELSE NatToStr(k)

\* JSON.stringify(v) throws a TypeError: a BigInt has no JSON text
JSONstringifyThrows(v) == v.t = "bigint"

\* JSON.stringify(v) of a value it does not throw on; "undefined" (without
\* quotes) stands for the value
\* undefined, which JSON.stringify returns for undefined
JSONstringify(v) ==
  CASE v.t = "null" -> "null"
    [] v.t = "undefined" -> "undefined"
    [] v.t = "NaN" -> "null"
    [] v.t = "promise" -> "{}"
    [] v.t = "number" -> NumToStr(v.n)
    [] v.t = "boolean" -> IF v.n = 1 THEN "true" ELSE "false"
    [] v.t = "string" -> "\"" \o v.s \o "\""
    [] v.t = "objectAB" ->
         "{\"a\":" \o NumToStr(v.n) \o ",\"b\":" \o NumToStr(v.m) \o "}"
    [] v.t = "object" -> v.s

\* String(v), the conversion the + operator applies to a non-number
JsToString(v) ==
  CASE v.t = "number" -> NumToStr(v.n)
    [] v.t = "string" -> v.s
    [] v.t \in {"objectAB", "object", "promise"} -> "[object Object]"
    [] OTHER -> v.t

\* the outcome of evaluating an expression: a value or a thrown error
Ok(v) == [ok |-> TRUE, v |-> v, err |-> ""]
Throw(msg) == [ok |-> FALSE, v |-> JsNull, err |-> msg]

\* input.<prop>: a TypeError on null and undefined, the field a or b of an
\* {a, b} object, undefined on everything else
GetProp(input, prop) ==
  CASE input.t \in {"null", "undefined"} -> Throw("TypeError")
    [] input.t = "objectAB" /\ prop = "a" -> Ok(JsNum(input.n))
    [] input.t = "objectAB" /\ prop = "b" -> Ok(JsNum(input.m))
    [] OTHER -> Ok(JsUndefined)

\* truthiness, the test of x || y
Truthy(v) ==
  CASE v.t \in {"null", "undefined", "NaN"} -> FALSE
    [] v.t = "number" -> v.n # 0
    [] v.t = "boolean" -> v.n = 1
    [] v.t = "string" -> v.s # ""
    [] OTHER -> TRUE

JsOr(x, y) == IF Truthy(x) THEN x ELSE y

\* x + y: numeric addition of two numbers, string concatenation when an
\* operand is an object or a string
JsAdd(x, y) ==
  CASE x.t = "number" /\ y.t = "number" -> JsNum(x.n + y.n)
    [] x.t \in {"objectAB", "object", "string", "promise"}
         \/ y.t \in {"objectAB", "object", "string", "promise"} ->
         JsStr(JsToString(x) \o JsToString(y))
    [] OTHER -> JsNaN

\* x * y: NaN unless both operands are numbers (an object converts to NaN)
JsMul(x, y) ==
  IF x.t = "number" /\ y.t = "number" THEN JsNum(x.n * y.n) ELSE JsNaN

(***************************************************************************)
(* The mock functions of executeTest (mockUsers is empty at every call:    *)
(* it is a local of the function built for one execution)                  *)
(***************************************************************************)
MockNames ==
  <<"CreateUser", "Login", "GetUserProfile", "validateEmail", "calculateSum",
    "calculateProduct", "fetchData", "saveToDatabase", "deleteUser",
    "updateUser", "getUserById", "authenticateUser">>

\* Object.keys(v).length = 0 for everything but an object with fields
HasNoKeys(v) == v.t \notin {"objectAB", "object"}

CreateUser(userData) ==
  IF ~Truthy(userData) \/ HasNoKeys(userData)
  THEN Ok(JsObj("{\"error\":\"invalid input\"}"))
  ELSE Ok(JsObj("{\"error\":\"Username is required\"}"))

\* const { Username, Password } = credentials throws on null and undefined
Login(credentials) ==
  IF credentials.t \in {"null", "undefined"} THEN Throw("TypeError")
  ELSE Ok(JsObj("{\"error\":\"invalid input\"}"))

GetUserProfile(currentUser) == Ok(JsObj("{\"error\":\"unauthorized\"}"))

\* no value of the model converts to a text with an '@'
validateEmail(email) == Ok(JsBool(FALSE))

calculateSum(a, b) == Ok(JsAdd(a, b))

calculateProduct(a, b) == Ok(JsMul(a, b))

fetchData(url) == Ok(JsPromise)

\* id is Math.random(): the text stands for any of its values
saveToDatabase(data) == Ok(JsObj("{\"success\":true,\"id\":0.5}"))

deleteUser(id) ==
  Ok(JsObj("{\"success\":true,\"deletedId\":" \o JSONstringify(id) \o "}"))

updateUser(id, data) ==
  Ok(JsObj("{\"id\":" \o JSONstringify(id) \o ",\"updatedAt\":\"now\"}"))

getUserById(id) ==
  Ok(JsObj("{\"id\":" \o JSONstringify(id)
             \o ",\"name\":\"Test User\",\"email\":\"test@example.com\"}"))

\* no value of the model is the user name 'admin'
authenticateUser(username, password) == Ok(JsNull)

(***************************************************************************)
(* executeTest (TestRunner.tsx)                                            *)
(***************************************************************************)
\* The texts of testCase.code the model draws from.
CodePool ==
  { "calculateSum(2, 3)",
    "calculateProduct(2, 3)",
    "Login ({})",
    "function getUserById(id) { return null; }",
    "1 + 1",
    "if (false) return 1",
    "getUserById(deleteUser(1))",
    "myLogin(1)",
    "calculateSum(",
    "fetchData; updateUser (1, {})",
    "return 7",
    "10n",
    "authenticateUser\n('admin', 'password')",
    "var ok = validateEmail('a@b.c')" }

\* What the JavaScript engine does with a code text placed in the body of
\* the function that new Function builds (after the mock declarations, before
\* the dispatch) and, later, given to eval:
\*   compiles    the body parses
\*   stmt        running the text as statements reaches the dispatch ("ok"),
\*               throws, or returns from the function
\*   redeclares  the mock names the text declares again as functions; the
\*               later declaration is the binding of the name in the body
\*   redeclValue what such a function returns
\*   evalOk      eval(code) returns evalValue, or throws
JsCode(code) ==
  LET plain == [compiles |-> TRUE, stmt |-> "ok", stmtErr |-> "",
                stmtValue |-> JsUndefined, redeclares |-> {},
                redeclValue |-> JsUndefined, evalOk |-> TRUE,
                evalValue |-> JsUndefined]
  IN  CASE code = "function getUserById(id) { return null; }" ->
             [plain EXCEPT !.redeclares = {"getUserById"}, !.redeclValue = JsNull]
        [] code = "1 + 1" -> [plain EXCEPT !.evalValue = JsNum(2)]
        [] code = "if (false) return 1" -> [plain EXCEPT !.evalOk = FALSE]
        [] code = "myLogin(1)" ->
             [plain EXCEPT !.stmt = "throws", !.stmtErr = "myLogin is not defined"]
        [] code = "calculateSum(" ->
             [plain EXCEPT !.compiles = FALSE, !.stmtErr = "Unexpected token '}'"]
        [] code = "10n" -> [plain EXCEPT !.evalValue = JsBigInt(10)]
        [] code = "return 7" ->
             [plain EXCEPT !.stmt = "returns", !.stmtValue = JsNum(7)]
        [] OTHER -> plain

\* the index of the first character at or after q that is not white space
RECURSIVE SkipSpaces(_, _)
SkipSpaces(code, q) ==
  IF q < Len(code) /\ IsSpace(CharAt(code, q)) THEN SkipSpaces(code, q + 1) ELSE q

\* the alternative name, then \s*, then \( match at index p
MatchAt(code, p, name) ==
  /\ OccursAt(code, name, p)
  /\ CharAt(code, SkipSpaces(code, p + Len(name))) = "("

\* a matcher that takes the first alternative that matches anywhere in the
\* text instead of the leftmost match
functionCallMatchByAlternative(code) ==
  LET ks == {k \in 1..Len(MockNames) :
               \E p \in 0..(Len(code) - 1) : MatchAt(code, p, MockNames[k])}
  IN  IF ks = {} THEN "" ELSE MockNames[Min(ks)]

\* code.match(/(CreateUser|...|authenticateUser)\s*\(/): the regular
\* expression engine tries the start positions from the left and, at one
\* position, the alternatives in the order written; "" stands for no match
functionCallMatch(code) ==
  LET starts == {p \in 0..(Len(code) - 1) :
                   \E k \in 1..Len(MockNames) : MatchAt(code, p, MockNames[k])}
      p0 == Min(starts)
      k0 == Min({k \in 1..Len(MockNames) : MatchAt(code, p0, MockNames[k])})
  IN  IF starts = {} THEN "" ELSE MockNames[k0]

\* input.<prop> || input
PropOrInput(input, prop) ==
  IF GetProp(input, prop).ok
  THEN Ok(JsOr(GetProp(input, prop).v, input))
  ELSE GetProp(input, prop)

\* the call of one case of the switch, with the mocks as declared
CallMock(functionName, input) ==
  CASE functionName = "CreateUser" -> CreateUser(input)
    [] functionName = "Login" -> Login(input)
    [] functionName = "GetUserProfile" -> GetUserProfile(input)
    [] functionName = "validateEmail" -> validateEmail(input)
    [] functionName = "calculateSum" ->
         IF PropOrInput(input, "a").ok
         THEN calculateSum(PropOrInput(input, "a").v,
                           JsOr(GetProp(input, "b").v, JsNum(0)))
         ELSE PropOrInput(input, "a")
    [] functionName = "calculateProduct" ->
         IF PropOrInput(input, "a").ok
         THEN calculateProduct(PropOrInput(input, "a").v,
                               JsOr(GetProp(input, "b").v, JsNum(1)))
         ELSE PropOrInput(input, "a")
    [] functionName = "fetchData" -> fetchData(input)
    [] functionName = "saveToDatabase" -> saveToDatabase(input)
    [] functionName = "deleteUser" -> deleteUser(input)
    [] functionName = "updateUser" ->
         IF PropOrInput(input, "id").ok
         THEN updateUser(PropOrInput(input, "id").v, input)
         ELSE PropOrInput(input, "id")
    [] functionName = "getUserById" -> getUserById(input)
    [] functionName = "authenticateUser" ->
         IF PropOrInput(input, "username").ok
         THEN authenticateUser(PropOrInput(input, "username").v,
                               JsOr(GetProp(input, "password").v, JsStr("")))
         ELSE PropOrInput(input, "username")
    [] OTHER -> Ok(input)

\* the cases whose arguments read a property of input throw on null
ArgsThrow(functionName, input) ==
  /\ functionName \in {"calculateSum", "calculateProduct", "updateUser",
                       "authenticateUser"}
  /\ ~GetProp(input, "a").ok

\* the switch: the arguments are evaluated and the function bound to the
\* name is called; the binding is the mock unless the code declares the name
Dispatch(functionName, input, sem) ==
  IF functionName \in sem.redeclares
  THEN IF ArgsThrow(functionName, input)
       THEN Throw("TypeError") ELSE Ok(sem.redeclValue)
  ELSE CallMock(functionName, input)

\* the body of the function built by new Function, applied to input
RunBody(code, input, sem) ==
  CASE sem.stmt = "throws" -> Throw(sem.stmtErr)
    [] sem.stmt = "returns" -> Ok(sem.stmtValue)
    [] OTHER ->
         IF functionCallMatch(code) # ""
         THEN Dispatch(functionCallMatch(code), input, sem)
         ELSE IF sem.evalOk THEN Ok(sem.evalValue) ELSE Ok(input)

NoError == ""

\* executeTest(testCase), taking duration milliseconds
executeTest(testCase, duration) ==
  LET sem == JsCode(testCase.code)
      run == IF sem.compiles THEN RunBody(testCase.code, testCase.input, sem)
             ELSE Throw(sem.stmtErr)
  IN  IF run.ok
      THEN [result |-> run.v, error |-> NoError, duration |-> duration]
      ELSE [result |-> JsNull, error |-> run.err, duration |-> duration]

(***************************************************************************)
(* Bounds                                                                  *)
(***************************************************************************)
MaxTests == 2       \* longest list of test cases in one AI response
\* the execution time performance.now() measures, in milliseconds
Durations == {1}

(***************************************************************************)
(* Test generation: the Go handler's defaults and the dashboard's format   *)
(***************************************************************************)
\* the test cases an AI response may carry (GeminiTestCase); "" is a field
\* the response leaves out
GeminiCasePool ==
  { [id |-> "t1", name |-> "adds", input |-> JsObjAB(2, 3), expected |-> JsNum(5),
     code |-> "calculateSum(2, 3)", testType |-> "unit", priority |-> "high"],
    [id |-> "", name |-> "multiplies", input |-> JsObjAB(2, 3),
     expected |-> JsNum(5), code |-> "calculateProduct(2, 3)",
     testType |-> "", priority |-> ""],
    [id |-> "test_2", name |-> "broken", input |-> JsNull, expected |-> JsNum(1),
     code |-> "calculateSum(", testType |-> "edge-case", priority |-> ""] }

\* the lists of at most n elements of S
SeqsUpTo(S, n) == UNION {[1..k -> S] : k \in 0..n}

\* the responses the dashboard receives in the runner's specification: a
\* case whose execution differs from its expected value and a case whose
\* code does not compile
RunnerCasePool ==
  {c \in GeminiCasePool : c.code # "calculateSum(2, 3)"}
    \cup {[id |-> "big", name |-> "big number", input |-> JsNull,
            expected |-> JsNum(10), code |-> "10n", testType |-> "unit",
            priority |-> "low"]}

RunnerResponses == SeqsUpTo(RunnerCasePool, MaxTests)

\* generateTestsHandler, "Add unique IDs if missing"
AddUniqueIDs(cases) ==
  [i \in 1..Len(cases) |->
     [cases[i] EXCEPT
        !.id = IF cases[i].id = "" THEN "test_" \o NumToStr(i) ELSE cases[i].id,
        !.testType = IF cases[i].testType = "" THEN "unit" ELSE cases[i].testType,
        !.priority = IF cases[i].priority = "" THEN "medium"
                     ELSE cases[i].priority]]

NoDuration == -1    \* duration: undefined

\* convertGeminiTestsToAppFormat (lib/api.ts)
convertGeminiTestsToAppFormat(geminiTests) ==
  [i \in 1..Len(geminiTests) |->
     [id |-> IF geminiTests[i].id = "" THEN "test_" \o NumToStr(i)
             ELSE geminiTests[i].id,
      name |-> geminiTests[i].name,
      input |-> geminiTests[i].input,
      expected |-> geminiTests[i].expected,
      code |-> geminiTests[i].code,
      status |-> "pending",
      testType |-> geminiTests[i].testType,
      priority |-> geminiTests[i].priority,
      result |-> JsUndefined,
      error |-> NoError,
      duration |-> NoDuration]]

(***************************************************************************)
(* The dashboard and the test runner                                       *)
(***************************************************************************)
Idle == [pc |-> "idle"]

\* JavaScript runs a promise continuation (a microtask) before any other
\* event: after executeTest, which never waits, nothing comes between the
\* call and the statements that follow the await
NoMicrotask == runAll.pc # "awaitExec" /\ single.pc # "awaitExec"

\* what the user may have typed into an input: nothing, blanks, a text
FormValues == {"", " ", "x"}

\* a runner that validates: the status follows the comparison and the
\* result shown is the actual one
ExecutedValidating(test, execution) ==
  [test EXCEPT !.status = IF JSONstringify(execution.result)
                               = JSONstringify(test.expected)
                          THEN "passed" ELSE "failed",
               !.result = execution.result,
               !.error = execution.error,
               !.duration = execution.duration]

\* the test case after its execution (runAllTests and runSingleTest)
Executed(test, execution) ==
  [test EXCEPT !.status = "passed",
               !.result = test.expected,
               !.error = execution.error,
               !.duration = execution.duration]

\* the checks of handleGenerateTests with the code input tested first
GenerateToastCodeFirst(geminiKey, codeInput) ==
  IF TrimSpace(codeInput) = "" THEN "Code Required"
  ELSE IF geminiKey = "" THEN "API Key Required"
  ELSE ""

\* the checks of handleGenerateTests: the title of the toast that ends the
\* handler, "" when the inputs pass
GenerateToast(geminiKey, codeInput) ==
  IF geminiKey = "" THEN "API Key Required"
  ELSE IF TrimSpace(codeInput) = "" THEN "Code Required"
  ELSE ""

\* handleGenerateTests up to its await, with what the inputs hold at the
\* click (setRepoUrl, setGeminiKey and setCodeInput follow the typing); the
\* button is disabled while generating and while both inputs are empty
GenerateClick ==
  /\ NoMicrotask
  /\ ~isGenerating
  /\ \E repoUrl \in {"", "x"}, geminiKey \in {"", "x"}, codeInput \in FormValues :
       form' = [repoUrl |-> repoUrl, geminiKey |-> geminiKey,
                codeInput |-> codeInput]
  /\ form'.repoUrl # "" \/ form'.codeInput # ""
  /\ IF GenerateToast(form'.geminiKey, form'.codeInput) # ""
     THEN /\ toast' = GenerateToast(form'.geminiKey, form'.codeInput)
          /\ UNCHANGED <<isGenerating, gen>>
     ELSE /\ isGenerating' = TRUE
          /\ gen' = [pc |-> "waiting"]
          /\ UNCHANGED toast
  /\ UNCHANGED <<testCases, isRunning, progress, currentTest, runAll, single>>
  /\ UNCHANGED nonRunnerVars

\* the list shown for each response, computed once
GeneratedLists ==
  [r \in RunnerResponses |-> convertGeminiTestsToAppFormat(AddUniqueIDs(r))]

\* handleGenerateTests after ApiService.generateTests resolved; a response
\* whose testCases is null makes geminiTests.map throw, which the catch
\* block handles
GenerateResolve ==
  /\ NoMicrotask
  /\ gen.pc = "waiting"
  /\ \E hasTestCases \in BOOLEAN :
       IF hasTestCases
       THEN /\ \E r \in RunnerResponses : testCases' = GeneratedLists[r]
            /\ toast' = "Tests Generated!"
       ELSE /\ toast' = "Generation Failed"
            /\ UNCHANGED testCases
  /\ isGenerating' = FALSE
  /\ gen' = Idle
  /\ UNCHANGED <<isRunning, progress, currentTest, runAll, single, form>>
  /\ UNCHANGED nonRunnerVars

\* handleGenerateTests after ApiService.generateTests rejected
GenerateReject ==
  /\ NoMicrotask
  /\ gen.pc = "waiting"
  /\ toast' = "Generation Failed"
  /\ isGenerating' = FALSE
  /\ gen' = Idle
  /\ UNCHANGED <<testCases, isRunning, progress, currentTest, runAll, single,
                 form>>
  /\ UNCHANGED nonRunnerVars

\* executeTest on each test case of the responses, computed once
Executions ==
  [c \in {[code |-> x.code, input |-> x.input] : x \in RunnerCasePool} |->
     [d \in Durations |-> executeTest(c, d)]]

\* await executeTest(test), taking d milliseconds
ExecutionOf(test, d) ==
  Executions[[code |-> test.code, input |-> test.input]][d]

\* one loop iteration of runAllTests up to await executeTest
RunAllIteration(updatedTests, i, d) ==
  LET running == [updatedTests EXCEPT ![i + 1].status = "running"]
  IN  /\ currentTest' = i
      /\ testCases' = running
      /\ runAll' = [pc |-> "awaitExec", updatedTests |-> running, i |-> i,
                    execution |-> ExecutionOf(running[i + 1], d)]

\* runAllTests from the click to the first await; the button is disabled
\* while running and when there is no test case
RunAllClick ==
  /\ NoMicrotask
  /\ ~isRunning
  /\ Len(testCases) # 0
  /\ isRunning' = TRUE
  /\ progress' = <<0, 1>>
  /\ \E d \in Durations : RunAllIteration(testCases, 0, d)
  /\ UNCHANGED <<isGenerating, single, gen, form, toast>>
  /\ UNCHANGED nonRunnerVars

\* a progress that counts the tests before test i
ProgressBefore(i, length) == <<i * 100, length>>

\* ((i + 1) / updatedTests.length) * 100, as the pair (numerator, denominator)
ProgressAfter(i, length) == <<(i + 1) * 100, length>>

\* runAllTests after await executeTest, up to the delay; when
\* JSON.stringify(execution.result) throws, the call of runAllTests ends
\* there with its promise rejected
RunAllAfterExec ==
  /\ runAll.pc = "awaitExec"
  /\ LET updatedTests ==
           [runAll.updatedTests EXCEPT
              ![runAll.i + 1] = Executed(runAll.updatedTests[runAll.i + 1],
                                         runAll.execution)]
     IN  IF JSONstringifyThrows(runAll.execution.result)
         THEN /\ runAll' = Idle
              /\ UNCHANGED <<testCases, progress>>
         ELSE /\ testCases' = updatedTests
              /\ progress' = ProgressAfter(runAll.i, Len(updatedTests))
              /\ runAll' = [runAll EXCEPT !.pc = "delay",
                                          !.updatedTests = updatedTests]
  /\ UNCHANGED <<isRunning, isGenerating, currentTest, single, gen, form, toast>>
  /\ UNCHANGED nonRunnerVars

\* runAllTests after the 500 ms delay: the next iteration, or the end
RunAllAfterDelay ==
  /\ NoMicrotask
  /\ runAll.pc = "delay"
  /\ IF runAll.i + 1 < Len(runAll.updatedTests)
     THEN /\ \E d \in Durations :
               RunAllIteration(runAll.updatedTests, runAll.i + 1, d)
          /\ UNCHANGED <<isRunning, toast>>
     ELSE /\ isRunning' = FALSE
          /\ toast' = "Test Execution Complete"
          /\ runAll' = Idle
          /\ UNCHANGED <<testCases, currentTest>>
  /\ UNCHANGED <<isGenerating, progress, single, gen, form>>
  /\ UNCHANGED nonRunnerVars

\* a reset that leaves the measured duration in place
ResetTestsKeepingDuration(tests) ==
  [i \in 1..Len(tests) |->
     [tests[i] EXCEPT !.status = "pending", !.result = JsUndefined,
                      !.error = NoError]]

\* testCases.map(test => ({...test, status: 'pending', result: undefined,
\* error: undefined, duration: undefined}))
ResetTests(tests) ==
  [i \in 1..Len(tests) |->
     [tests[i] EXCEPT !.status = "pending", !.result = JsUndefined,
                      !.error = NoError, !.duration = NoDuration]]

\* resetTests; the button is disabled while running
ResetClick ==
  /\ NoMicrotask
  /\ ~isRunning
  /\ testCases' = ResetTests(testCases)
  /\ progress' = <<0, 1>>
  /\ currentTest' = 0
  /\ UNCHANGED <<isRunning, isGenerating, runAll, single, gen, form, toast>>
  /\ UNCHANGED nonRunnerVars

\* testCases.findIndex(t => t.id === testId), 0-based, -1 when absent
FindIndex(tests, testId) ==
  IF \E k \in 1..Len(tests) : tests[k].id = testId
  THEN Min({k \in 1..Len(tests) : tests[k].id = testId}) - 1
  ELSE -1

\* runSingleTest(testId) from the click to the await; every listed test has
\* a button, disabled while running
RunSingleClick ==
  /\ NoMicrotask
  /\ ~isRunning
  /\ \E k \in 1..Len(testCases), d \in Durations :
       LET testIndex == FindIndex(testCases, testCases[k].id)
           running == [testCases EXCEPT ![testIndex + 1].status = "running"]
       IN  /\ testIndex # -1
           /\ testCases' = running
           /\ single' = [pc |-> "awaitExec", updatedTests |-> running,
                         testIndex |-> testIndex,
                         execution |-> ExecutionOf(running[testIndex + 1], d)]
  /\ UNCHANGED <<isRunning, isGenerating, progress, currentTest, runAll, gen,
                 form, toast>>
  /\ UNCHANGED nonRunnerVars

\* runSingleTest after await executeTest; when
\* JSON.stringify(execution.result) throws, the call ends there
RunSingleAfterExec ==
  /\ single.pc = "awaitExec"
  /\ testCases' =
       IF JSONstringifyThrows(single.execution.result)
       THEN testCases
       ELSE [single.updatedTests EXCEPT
               ![single.testIndex + 1] =
                  Executed(single.updatedTests[single.testIndex + 1],
                           single.execution)]
  /\ single' = Idle
  /\ UNCHANGED <<isRunning, isGenerating, progress, currentTest, runAll, gen,
                 form, toast>>
  /\ UNCHANGED nonRunnerVars

\* the variables of the other components, at rest
IdleFn == fnArg = <<>> /\ fnOut = <<>>
IdleClone == cb = Idle
IdleGo == disk = <<>> /\ hnd = <<>> /\ resp = <<>>
IdleRunner ==
  /\ testCases = <<>>
  /\ isRunning = FALSE
  /\ isGenerating = FALSE
  /\ progress = <<0, 1>>
  /\ currentTest = 0
  /\ runAll = Idle
  /\ single = Idle
  /\ gen = Idle
  /\ form = [repoUrl |-> "", geminiKey |-> "", codeInput |-> ""]
  /\ toast = ""

\* Dashboard and TestRunner after mounting
InitRunner == IdleRunner /\ IdleFn /\ IdleClone /\ IdleGo

NextRunner ==
  \/ GenerateClick
  \/ GenerateResolve
  \/ GenerateReject
  \/ RunAllClick
  \/ RunAllAfterExec
  \/ RunAllAfterDelay
  \/ ResetClick
  \/ RunSingleClick
  \/ RunSingleAfterExec

SpecRunner == InitRunner /\ [][NextRunner]_vars

(***************************************************************************)
(* executeTest as a function: any code of the pool on any input            *)
(***************************************************************************)
InputPool == {JsNull, JsNum(0), JsNum(2), JsObjAB(2, 3), JsObjAB(0, 5)}

InitExec ==
  /\ fnArg \in [code : CodePool, input : InputPool]
  /\ fnOut = <<>>
  /\ IdleRunner /\ IdleClone /\ IdleGo

ExecuteTestCall ==
  /\ fnOut = <<>>
  /\ \E d \in Durations : fnOut' = <<executeTest(fnArg, d)>>
  /\ UNCHANGED <<fnArg, cb, disk, hnd, resp>>
  /\ UNCHANGED runnerVars

NextExec == ExecuteTestCall

SpecExec == InitExec /\ [][NextExec]_vars

(***************************************************************************)
(* C1                                                                      *)
(***************************************************************************)
\* a test whose execution has completed carries the measured duration;
\* resetTests clears it
HasRun(test) == test.duration # NoDuration

C2_ResultValidation ==
  runAll.pc = "delay" =>
    LET test == runAll.updatedTests[runAll.i + 1]
        equal == JSONstringify(runAll.execution.result)
                   = JSONstringify(test.expected)
    IN  /\ test.status = (IF equal THEN "passed" ELSE "failed")
        /\ test.result = runAll.execution.result

(***************************************************************************)
(* C3                                                                      *)
(***************************************************************************)
\* name occurs in code at index p, followed by optional white space and '('
Occurrence(code, name, p) ==
  /\ OccursAt(code, name, p)
  /\ \E q \in (p + Len(name))..(Len(code) - 1) :
       /\ CharAt(code, q) = "("
       /\ \A r \in (p + Len(name))..(q - 1) : IsSpace(CharAt(code, r))

MockNameSet == {MockNames[k] : k \in 1..Len(MockNames)}

\* the mock names of the leftmost occurrence (none, or one)
LeftmostNames(code) ==
  {name \in MockNameSet :
     \E p \in 0..Len(code) :
       /\ Occurrence(code, name, p)
       /\ \A n2 \in MockNameSet, p2 \in 0..(p - 1) : ~Occurrence(code, n2, p2)}

\* the body compiles and runs up to the dispatch
ReachesDispatch(code) == JsCode(code).compiles /\ JsCode(code).stmt = "ok"

\* without an occurrence: eval(code), and the input when eval throws
EvalFallback(out) ==
  /\ out.error = NoError
  /\ JsCode(fnArg.code).evalOk => out.result = JsCode(fnArg.code).evalValue
  /\ ~JsCode(fnArg.code).evalOk => out.result = fnArg.input

\* C3 as stated: when the body reaches the dispatch, the mock of the
\* leftmost occurrence is called with the test input and its return value is
\* the execution result; without an occurrence the code is evaluated and the
\* result is the input when the evaluation throws.
C3_LeftmostMockCalled ==
  (Len(fnOut) = 1 /\ ReachesDispatch(fnArg.code)) =>
    IF LeftmostNames(fnArg.code) # {}
    THEN \A name \in LeftmostNames(fnArg.code) :
           /\ CallMock(name, fnArg.input).ok
           /\ fnOut[1].error = NoError
           /\ fnOut[1].result = CallMock(name, fnArg.input).v
    ELSE EvalFallback(fnOut[1])

\* C3 amended: the switch case of the leftmost occurrence is taken; the
\* function bound to that name (the mock, unless the test code declares a
\* function of that name) is called with arguments built from the input;
\* its return value is the result when nothing throws, and when building
\* the arguments or the call throws the result is null with the error.
C3_LeftmostCaseTaken ==
  (Len(fnOut) = 1 /\ ReachesDispatch(fnArg.code)) =>
    IF LeftmostNames(fnArg.code) # {}
    THEN \A name \in LeftmostNames(fnArg.code) :
           LET redeclared == name \in JsCode(fnArg.code).redeclares
               throws == \/ ArgsThrow(name, fnArg.input)
                         \/ ~redeclared /\ ~CallMock(name, fnArg.input).ok
           IN  /\ throws => fnOut[1].result = JsNull /\ fnOut[1].error # NoError
               /\ ~throws => fnOut[1].error = NoError
               /\ (~throws /\ redeclared) =>
                    fnOut[1].result = JsCode(fnArg.code).redeclValue
               /\ (~throws /\ ~redeclared) =>
                    fnOut[1].result = CallMock(name, fnArg.input).v
    ELSE EvalFallback(fnOut[1])

\* a code with two occurrences was executed and the result is that of the
\* mock of the left one
C3_Witness ==
  /\ Len(fnOut) = 1
  /\ fnArg.code = "getUserById(deleteUser(1))"
  /\ LeftmostNames(fnArg.code) = {"getUserById"}
  /\ fnArg.input = JsNum(2)
  /\ fnOut[1].result = getUserById(JsNum(2)).v
  /\ fnOut[1].result # deleteUser(JsNum(2)).v

(***************************************************************************)
(* JSON extraction from the generated text (Go handler and browser client) *)
(***************************************************************************)
MaxTextLen == 4     \* longest generated text

\* the characters of a generated text: the braces, a line break, anything else
TextChars == {"{", "}", "\n", "x"}

RECURSIVE TextsOfLen(_)
TextsOfLen(n) ==
  IF n = 0 THEN {""} ELSE {t \o c : t \in TextsOfLen(n - 1), c \in TextChars}

GeneratedTexts == UNION {TextsOfLen(n) : n \in 0..MaxTextLen}

NoJsonError == "No valid JSON found in Gemini response"

\* the outcome of the extraction: the candidate, or the error
JsonFound(jsonStr) == [error |-> "", json |-> jsonStr]
JsonMissing == [error |-> NoJsonError, json |-> ""]

\* generateTestsHandler with the closing brace looked up from the left
GoExtractJsonFirstClose(generatedText) ==
  LET jsonStart == Index(generatedText, "{")
      jsonEnd == Index(generatedText, "}")
  IN  IF jsonStart = -1 \/ jsonEnd = -1 \/ jsonStart >= jsonEnd
      THEN JsonMissing
      ELSE JsonFound(Slice(generatedText, jsonStart, jsonEnd + 1))

\* generateTestsHandler, "Extract JSON from the response"
GoExtractJson(generatedText) ==
  LET jsonStart == Index(generatedText, "{")
      jsonEnd == LastIndex(generatedText, "}")
  IN  IF jsonStart = -1 \/ jsonEnd = -1 \/ jsonStart >= jsonEnd
      THEN JsonMissing
      ELSE JsonFound(Slice(generatedText, jsonStart, jsonEnd + 1))

\* generatedText.match(/\{[\s\S]*\}/): the engine takes the leftmost '{'
\* from which a match exists; [\s\S]* is greedy and takes any character, so
\* the match ends at the last '}' after that '{'
ClientExtractJson(generatedText) ==
  LET closes(p) == {q \in (p + 1)..(Len(generatedText) - 1) :
                      CharAt(generatedText, q) = "}"}
      starts == {p \in 0..(Len(generatedText) - 1) :
                   CharAt(generatedText, p) = "{" /\ closes(p) # {}}
  IN  IF starts = {} THEN JsonMissing
      ELSE JsonFound(Slice(generatedText, Min(starts),
                           Max(closes(Min(starts))) + 1))

\* the results of the Go and of the browser implementation of one function
NoCalls == [go |-> <<>>, ts |-> <<>>]

InitJson ==
  /\ fnArg \in GeneratedTexts
  /\ fnOut = NoCalls
  /\ IdleRunner /\ IdleClone /\ IdleGo

GoExtractJsonCall ==
  /\ fnOut.go = <<>>
  /\ fnOut' = [fnOut EXCEPT !.go = <<GoExtractJson(fnArg)>>]
  /\ UNCHANGED <<fnArg, cb, disk, hnd, resp>>
  /\ UNCHANGED runnerVars

ClientExtractJsonCall ==
  /\ fnOut.ts = <<>>
  /\ fnOut' = [fnOut EXCEPT !.ts = <<ClientExtractJson(fnArg)>>]
  /\ UNCHANGED <<fnArg, cb, disk, hnd, resp>>
  /\ UNCHANGED runnerVars

NextJson == GoExtractJsonCall \/ ClientExtractJsonCall

SpecJson == InitJson /\ [][NextJson]_vars

(***************************************************************************)
(* C4                                                                      *)
(***************************************************************************)
BracePositions(text, brace) ==
  {i \in 1..Len(text) : SubSeq(text, i, i) = brace}

\* the text has a '{' and a '}' and its first '{' comes before its last '}'
HasCandidate(text) ==
  /\ BracePositions(text, "{") # {}
  /\ BracePositions(text, "}") # {}
  /\ Min(BracePositions(text, "{")) < Max(BracePositions(text, "}"))

\* the substring from the first '{' to the last '}' inclusive
Candidate(text) ==
  SubSeq(text, Min(BracePositions(text, "{")), Max(BracePositions(text, "}")))

\* C4: the JSON candidate is the substring from the first '{' to the last
\* '}' inclusive; without such a substring the generation fails with 'No
\* valid JSON found in Gemini response'; the Go handler and the browser
\* client select the same substring, or both fail, for every text.
C4_SameJsonCandidate ==
  /\ \A out \in {fnOut.go, fnOut.ts} :
       Len(out) = 1 =>
         IF HasCandidate(fnArg)
         THEN out[1].error = "" /\ out[1].json = Candidate(fnArg)
         ELSE out[1].error = NoJsonError /\ out[1].json = ""
  /\ (Len(fnOut.go) = 1 /\ Len(fnOut.ts) = 1) => fnOut.go = fnOut.ts

\* both implementations extracted from a text with text around the braces
\* and a closing brace inside the candidate
C4_Witness ==
  /\ Len(fnOut.go) = 1 /\ Len(fnOut.ts) = 1
  /\ fnArg = "x{}}"
  /\ fnOut.go[1].json = "{}}"
  /\ fnOut.ts[1].json = "{}}"

\* both implementations failed on a text whose only '}' precedes its '{'
C4_WitnessFail ==
  /\ Len(fnOut.go) = 1 /\ Len(fnOut.ts) = 1
  /\ fnArg = "}{"
  /\ fnOut.go[1].error = NoJsonError

(***************************************************************************)
(* GitHub URL parsing (Go backend and browser client)                      *)
(***************************************************************************)
\* the result of a parse: Go's (owner, repo, error), the client's
\* {owner, repo} or null
Parsed(owner, repo) == [valid |-> TRUE, owner |-> owner, repo |-> repo]
InvalidURL == [valid |-> FALSE, owner |-> "", repo |-> ""]

\* github\.com/([^/]+)/([^/]+)$ searched in the text: the leftmost
\* "github.com/" whose remainder up to the end of the text is two non-empty
\* parts separated by the only '/'; <<owner, repo>> or <<>> without a match
MatchOwnerRepo(cleanURL) ==
  LET host == "github.com/"
      rest(i) == Split(Slice(cleanURL, i + Len(host), Len(cleanURL)), "/")
      at == {i \in 0..(Len(cleanURL) - Len(host)) :
               /\ OccursAt(cleanURL, host, i)
               /\ Len(rest(i)) = 2
               /\ rest(i)[1] # "" /\ rest(i)[2] # ""}
  IN  IF at = {} THEN <<>> ELSE rest(Min(at))

\* the steps before the regular expression, the same in both implementations
CleanURL(url) ==
  LET noBlob == IF Contains(url, "/blob/") THEN Split(url, "/blob/")[1] ELSE url
      noTree == IF Contains(noBlob, "/tree/")
                THEN Split(noBlob, "/tree/")[1] ELSE noBlob
  IN  TrimSuffix(TrimSuffix(noTree, "/"), ".git")

\* main.go
parseGitHubURL(url) ==
  LET matches == MatchOwnerRepo(CleanURL(url))
  IN  IF matches = <<>> THEN InvalidURL
      ELSE LET owner == TrimSpace(matches[1])
               repo == TrimSpace(matches[2])
           IN  IF owner = "" \/ repo = "" THEN InvalidURL
               ELSE Parsed(owner, repo)

\* ClientBackend.parseGitHubUrl; a throw is caught and null returned
ClientParseGitHubUrl(url) ==
  LET match == MatchOwnerRepo(CleanURL(url))
  IN  IF match = <<>> THEN InvalidURL
      ELSE LET owner == TrimSpace(match[1])
               repo == TrimSpace(match[2])
           IN  IF owner = "" \/ repo = "" THEN InvalidURL
               ELSE Parsed(owner, repo)

Owners == {"o", "my-org"}
RepoNames == {"r", "my.repo", "tree", "blob"}
UrlFormats == {"plain", "slash", "git", "tree", "blob"}

FormatURL(format, o, r) ==
  LET base == "https://github.com/" \o o \o "/" \o r
  IN  CASE format = "plain" -> base
        [] format = "slash" -> base \o "/"
        [] format = "git" -> base \o ".git"
        [] format = "tree" -> base \o "/tree/main/src"
        [] format = "blob" -> base \o "/blob/main/a.go"

\* texts without a github.com/<owner>/<repo> tail
OtherTexts ==
  {"", "not a url", "https://github.com/", "https://github.com/o",
   "https://gitlab.com/o/r", "github.com//r", "https://github.com/o/r/issues/1"}

\* the argument of a parse together with what it was built from
UrlInputs ==
  {[url |-> FormatURL(f, o, r), format |-> f, owner |-> o, repo |-> r] :
     f \in UrlFormats, o \in Owners, r \in RepoNames}
  \cup {[url |-> t, format |-> "other", owner |-> "", repo |-> ""] :
          t \in OtherTexts}

InitUrl ==
  /\ fnArg \in UrlInputs
  /\ fnOut = NoCalls
  /\ IdleRunner /\ IdleClone /\ IdleGo

ParseGitHubURLCall ==
  /\ fnOut.go = <<>>
  /\ fnOut' = [fnOut EXCEPT !.go = <<parseGitHubURL(fnArg.url)>>]
  /\ UNCHANGED <<fnArg, cb, disk, hnd, resp>>
  /\ UNCHANGED runnerVars

ClientParseGitHubUrlCall ==
  /\ fnOut.ts = <<>>
  /\ fnOut' = [fnOut EXCEPT !.ts = <<ClientParseGitHubUrl(fnArg.url)>>]
  /\ UNCHANGED <<fnArg, cb, disk, hnd, resp>>
  /\ UNCHANGED runnerVars

NextUrl == ParseGitHubURLCall \/ ClientParseGitHubUrlCall

SpecUrl == InitUrl /\ [][NextUrl]_vars

(***************************************************************************)
(* C9                                                                      *)
(***************************************************************************)
\* C9: for every owner o and repository name r without '/', both parsers
\* return (o, r) for the plain, trailing-slash, .git, /tree/ and /blob/ forms
\* of the URL, and report an invalid URL for a text without a
\* github.com/<owner>/<repo> tail.
C9_AllFormatsParsed ==
  \A out \in {fnOut.go, fnOut.ts} :
    Len(out) = 1 =>
      IF fnArg.format = "other"
      THEN ~out[1].valid
      ELSE out[1] = Parsed(fnArg.owner, fnArg.repo)

\* the forms are parsed for the repository names that are not 'tree' or 'blob'
C9_OtherNamesParsed ==
  \A out \in {fnOut.go, fnOut.ts} :
    (Len(out) = 1 /\ fnArg.repo \notin {"tree", "blob"}) =>
      IF fnArg.format = "other"
      THEN ~out[1].valid
      ELSE out[1] = Parsed(fnArg.owner, fnArg.repo)

\* a repository named 'tree' given with a trailing slash is rejected by both
C9_TreeRepoRejected ==
  /\ fnArg.url = "https://github.com/o/tree/"
  /\ fnOut.go = <<InvalidURL>>
  /\ fnOut.ts = <<InvalidURL>>

(***************************************************************************)
(* Prompt context generation (Go backend and browser client)               *)
(***************************************************************************)
MaxFiles == 2     \* longest list of files given to generatePromptContext

\* FileContent{Path, Content, Size: len(content)}
FileContent(path, content) ==
  [path |-> path, content |-> content, size |-> Len(content)]

ContextFilePool ==
  {FileContent("main.go", "package main"),
   FileContent("Go.mod", "module m"),
   FileContent("config.json", "{}"),
   FileContent("README.md", "# m"),
   FileContent("json", "[]")}

FileLists == SeqsUpTo(ContextFilePool, MaxFiles)

ContextHeader ==
  "=== REPOSITORY CODE CONTEXT FOR TEST GENERATION ===\n\n"
  \o "This context contains all source code files from the cloned repository.\n"
  \o "Generate comprehensive test cases based on the functions, methods, and logic found in these files.\n\n"
  \o "=== FILES ===\n\n"

ContextFooter ==
  "\n=== END OF CONTEXT ===\n"
  \o "Generate comprehensive test cases for the functions and methods found in the above code.\n"

\* "// File: %s\n%s\n\n---\n"
FileEntry(file) ==
  "// File: " \o file.path \o "\n" \o file.content \o "\n\n---\n"

RECURSIVE FileEntries(_)
FileEntries(files) ==
  IF files = <<>> THEN ""
  ELSE FileEntry(Head(files)) \o FileEntries(Tail(files))

\* one section: nothing for an empty group, else the title and the entries
Section(title, files) ==
  IF Len(files) > 0 THEN title \o "\n\n" \o FileEntries(files) ELSE ""

\* the files of the list whose group, given at the same index of groups, is
\* group, in the order of the list
RECURSIVE FilesOfGroup(_, _, _)
FilesOfGroup(files, groups, group) ==
  IF files = <<>> THEN <<>>
  ELSE (IF Head(groups) = group THEN <<Head(files)>> ELSE <<>>)
         \o FilesOfGroup(Tail(files), Tail(groups), group)

\* filepath.Ext: from the final dot of the final path element, "" without one
GoExt(path) ==
  LET base == AfterLast(path, "/")
  IN  IF LastIndex(base, ".") = -1 THEN ""
      ELSE Slice(base, LastIndex(base, "."), Len(base))

ConfigExts == {"json", "yaml", "yml", "toml", "ini", "env"}

\* the group of a file in main.go
GoGroup(file) ==
  LET ext == ToLower(GoExt(file.path))
  IN  IF ext = ".go" THEN "go"
      ELSE IF \/ ext \in {"." \o e : e \in ConfigExts}
              \/ Contains(ToLower(file.path), "go.mod")
              \/ Contains(ToLower(file.path), "go.sum")
           THEN "config"
           ELSE "other"

\* the group of a file in backend.ts: path.split('.').pop()?.toLowerCase()
ClientGroup(file) ==
  LET ext == ToLower(AfterLast(file.path, "."))
  IN  IF ext = "go" THEN "go"
      ELSE IF \/ ext \in ConfigExts
              \/ Contains(file.path, "go.mod")
              \/ Contains(file.path, "go.sum")
           THEN "config"
           ELSE "other"

\* the context for the files and the group of each of them
BuildContext(files, groups) ==
  LET goFiles == FilesOfGroup(files, groups, "go")
      configFiles == FilesOfGroup(files, groups, "config")
      otherFiles == FilesOfGroup(files, groups, "other")
  IN  ContextHeader
        \o Section("=== GO SOURCE FILES ===", goFiles)
        \o Section("=== CONFIGURATION FILES ===", configFiles)
        \o Section("=== OTHER FILES ===", otherFiles)
        \o ContextFooter

\* main.go
generatePromptContext(files) ==
  BuildContext(files, [i \in 1..Len(files) |-> GoGroup(files[i])])

\* ClientBackend.generatePromptContext
ClientGeneratePromptContext(files) ==
  BuildContext(files, [i \in 1..Len(files) |-> ClientGroup(files[i])])

InitContext ==
  /\ fnArg \in FileLists
  /\ fnOut = NoCalls
  /\ IdleRunner /\ IdleClone /\ IdleGo

GeneratePromptContextCall ==
  /\ fnOut.go = <<>>
  /\ fnOut' = [fnOut EXCEPT !.go = <<generatePromptContext(fnArg)>>]
  /\ UNCHANGED <<fnArg, cb, disk, hnd, resp>>
  /\ UNCHANGED runnerVars

ClientGeneratePromptContextCall ==
  /\ fnOut.ts = <<>>
  /\ fnOut' = [fnOut EXCEPT !.ts = <<ClientGeneratePromptContext(fnArg)>>]
  /\ UNCHANGED <<fnArg, cb, disk, hnd, resp>>
  /\ UNCHANGED runnerVars

NextContext == GeneratePromptContextCall \/ ClientGeneratePromptContextCall

SpecContext == InitContext /\ [][NextContext]_vars

(***************************************************************************)
(* C10                                                                     *)
(***************************************************************************)
\* C10: for every list of files the browser client's generatePromptContext
\* returns the same context string as the Go generatePromptContext.
C10_SameContext ==
  (Len(fnOut.go) = 1 /\ Len(fnOut.ts) = 1) => fnOut.go = fnOut.ts

\* a path on which the two groupings agree: its last element has a dot and
\* it spells go.mod / go.sum in lower case if at all
PlainPath(path) ==
  /\ Contains(AfterLast(path, "/"), ".")
  /\ Contains(ToLower(path), "go.mod") = Contains(path, "go.mod")
  /\ Contains(ToLower(path), "go.sum") = Contains(path, "go.sum")

\* the two contexts are the same for lists of such paths
C10_SameContextPlainPaths ==
  (/\ Len(fnOut.go) = 1 /\ Len(fnOut.ts) = 1
   /\ \A i \in 1..Len(fnArg) : PlainPath(fnArg[i].path))
    => fnOut.go = fnOut.ts

\* Go.mod is a configuration file for Go and an other file for the client
C10_GoModDiffers ==
  /\ fnArg = <<FileContent("Go.mod", "module m")>>
  /\ Len(fnOut.go) = 1 /\ Len(fnOut.ts) = 1
  /\ Contains(fnOut.go[1], "=== CONFIGURATION FILES ===")
  /\ Contains(fnOut.ts[1], "=== OTHER FILES ===")

(***************************************************************************)
(* File exclusion and repository reading (Go backend)                      *)
(***************************************************************************)
\* Files and directories to exclude when processing repository
excludePatterns ==
  <<"node_modules", ".git", "dist", "build", "coverage", ".next", ".nuxt",
    ".cache", "*.log", "*.tmp", ".DS_Store", "Thumbs.db", "*.min.js",
    "*.min.css", "package-lock.json", "yarn.lock", "pnpm-lock.yaml",
    "bun.lockb", ".env*", ".vscode", ".idea", "*.md", "LICENSE",
    "README*", ".gitignore", ".eslintrc*", ".prettierrc*", "tsconfig.json",
    "vite.config.*", "webpack.config.*", "rollup.config.*", "jest.config.*",
    "vitest.config.*", "cypress", "e2e", "__tests__", "test", "tests",
    "spec", "specs", "docs", "documentation", "assets", "images", "public",
    "static">>

\* strings.ReplaceAll / replace(/\*/g, ...) for a one-character old
RECURSIVE ReplaceAll(_, _, _)
ReplaceAll(s, old, new) ==
  IF Len(s) = 0 THEN s
  ELSE (IF CharAt(s, 0) = old THEN new ELSE CharAt(s, 0))
         \o ReplaceAll(Slice(s, 1, Len(s)), old, new)

\* does the regular expression match a prefix of s; the expressions built
\* from the patterns consist of characters, '.' (any character) and '*'
\* after one of them
RECURSIVE MatchHere(_, _)
MatchHere(re, s) ==
  IF Len(re) = 0 THEN TRUE
  ELSE LET c == CharAt(re, 0)
           takes(t) == Len(t) > 0 /\ (c = "." \/ c = CharAt(t, 0))
       IN  IF Len(re) >= 2 /\ CharAt(re, 1) = "*"
           THEN \E k \in 0..Len(s) :
                  /\ \A i \in 0..(k - 1) : c = "." \/ c = CharAt(s, i)
                  /\ MatchHere(Slice(re, 2, Len(re)), Slice(s, k, Len(s)))
           ELSE takes(s) /\ MatchHere(Slice(re, 1, Len(re)), Slice(s, 1, Len(s)))

\* regexp.MatchString / RegExp.prototype.test: a match anywhere in s
MatchString(re, s) ==
  \E i \in 0..Len(s) : MatchHere(re, Slice(s, i, Len(s)))

\* one pattern against one path part
PatternExcludes(pattern, part) ==
  IF Contains(pattern, "*")
  THEN MatchString(ReplaceAll(pattern, "*", ".*"), part)
  ELSE part = pattern \/ HasPrefix(part, pattern)

shouldExcludeFile(filePath) ==
  LET pathParts == Split(filePath, "/")
  IN  \E p \in 1..Len(excludePatterns) : \E q \in 1..Len(pathParts) :
        PatternExcludes(excludePatterns[p], pathParts[q])

SizeLimit == 1024 * 1024

sourceExts ==
  {".js", ".jsx", ".ts", ".tsx", ".py", ".java", ".cpp", ".c", ".cs", ".php",
   ".rb", ".go", ".rs", ".swift", ".kt", ".vue", ".svelte", ".html", ".css",
   ".scss", ".sass", ".less", ".json", ".yaml", ".yml", ".toml", ".ini",
   ".env", ".sql", ".sh", ".bat", ".ps1"}

importantFiles ==
  {"dockerfile", "makefile", "readme", "license", "changelog", "contributing",
   "docker-compose", "package", "composer", "requirements", "pom", "gradle",
   "gemfile", "cargo", "go.mod", "go.sum"}

\* isSourceFile after both loops
IsSourceFile(path) ==
  \/ ToLower(GoExt(path)) \in sourceExts
  \/ \E importantFile \in importantFiles :
       Contains(ToLower(AfterLast(path, "/")), importantFile)

\* What is at a path of the clone: nothing, a regular file, or a symbolic
\* link to another path of the clone.
NoEntry == [kind |-> "none", size |-> 0, readable |-> FALSE, target |-> ""]
RegularFile(size, readable) ==
  [kind |-> "file", size |-> size, readable |-> readable, target |-> ""]
SymLink(target) ==
  [kind |-> "link", size |-> 0, readable |-> TRUE, target |-> target]

\* the paths of the clone in the order filepath.Walk visits them
WalkOrder ==
  <<"LICENSE", "Makefile", "big.go", "dist/x.js", "link.go", "notes.txt">>
WalkPaths == {WalkOrder[i] : i \in 1..Len(WalkOrder)}

MaxOver == 1     \* how far a file size exceeds the limit

FileSizes == {10} \cup ((SizeLimit - 1)..(SizeLimit + MaxOver))

FileEntriesAt(path) ==
  IF path = "LICENSE" THEN {NoEntry, RegularFile(10, TRUE)}
  ELSE {NoEntry, RegularFile(SizeLimit, FALSE)}
         \cup {RegularFile(size, TRUE) : size \in FileSizes}
         \cup (IF path = "link.go" THEN {SymLink("big.go")} ELSE {})

CloneTrees == {tree \in [WalkPaths -> UNION {FileEntriesAt(p) : p \in WalkPaths}] :
                 \A p \in WalkPaths : tree[p] \in FileEntriesAt(p)}

\* info.Size() of the os.Lstat that filepath.Walk makes: the length of a
\* regular file, the length of the target text for a symbolic link
LstatSize(tree, path) ==
  IF tree[path].kind = "link" THEN Len(tree[path].target) ELSE tree[path].size

\* the file os.ReadFile opens: the path itself, or the target of the link
Opened(tree, path) ==
  IF tree[path].kind = "link" THEN tree[path].target ELSE path

\* os.ReadFile: <<length of the content read>>, or <<>> for an error
ReadFile(tree, path) ==
  LET entry == tree[Opened(tree, path)]
  IN  IF entry.kind = "file" /\ entry.readable THEN <<entry.size>> ELSE <<>>

\* FileContent{Path, Content, Size: len(content)}; the content is named by
\* the file it was read from
ReadFileContent(tree, relPath) ==
  [path |-> relPath, content |-> "<" \o Opened(tree, relPath) \o ">",
   size |-> ReadFile(tree, relPath)[1]]

\* the size test with the limit itself left out
TooLargeInclusive(size) == size >= SizeLimit

\* info.Size() > 1024*1024
TooLarge(size) == size > SizeLimit

\* shouldExcludeFile(relPath) for the paths of the clone
Excluded == [relPath \in WalkPaths |-> shouldExcludeFile(relPath)]

\* isSourceFile for the paths of the clone
SourceFile == [relPath \in WalkPaths |-> IsSourceFile(relPath)]

\* the walk function's decision for one visited path
Appended(tree, relPath) ==
  /\ tree[relPath].kind # "none"
  /\ ~Excluded[relPath]
  /\ ~TooLarge(LstatSize(tree, relPath))
  /\ SourceFile[relPath]
  /\ ReadFile(tree, relPath) # <<>>

RECURSIVE WalkFrom(_, _)
WalkFrom(tree, i) ==
  IF i > Len(WalkOrder) THEN <<>>
  ELSE (IF Appended(tree, WalkOrder[i])
        THEN <<ReadFileContent(tree, WalkOrder[i])>> ELSE <<>>)
         \o WalkFrom(tree, i + 1)

readRepositoryFiles(tree) == WalkFrom(tree, 1)

InitRead ==
  /\ fnArg \in CloneTrees
  /\ fnOut = <<>>
  /\ IdleRunner /\ IdleClone /\ IdleGo

ReadRepositoryFilesCall ==
  /\ fnOut = <<>>
  /\ fnOut' = <<readRepositoryFiles(fnArg)>>
  /\ UNCHANGED <<fnArg, cb, disk, hnd, resp>>
  /\ UNCHANGED runnerVars

NextRead == ReadRepositoryFilesCall

SpecRead == InitRead /\ [][NextRead]_vars

(***************************************************************************)
(* C7                                                                      *)
(***************************************************************************)
ReturnedPaths == {fnOut[1][i].path : i \in 1..Len(fnOut[1])}

\* C7: readRepositoryFiles never returns a file larger than 1,048,576 bytes:
\* every file above that size is left out, and a file of exactly 1,048,576
\* bytes that is otherwise eligible is returned.
C7_OneMegabyteBound ==
  fnOut # <<>> =>
    /\ \A i \in 1..Len(fnOut[1]) : fnOut[1][i].size <= 1048576
    /\ \A p \in WalkPaths :
         (fnArg[p].kind = "file" /\ fnArg[p].size > 1048576)
           => p \notin ReturnedPaths
    /\ \A p \in WalkPaths :
         (/\ fnArg[p] = RegularFile(1048576, TRUE)
          /\ ~Excluded[p] /\ SourceFile[p])
           => p \in ReturnedPaths

\* the bound holds for the paths that are regular files
C7_RegularFilesBounded ==
  fnOut # <<>> =>
    /\ \A i \in 1..Len(fnOut[1]) :
         fnArg[fnOut[1][i].path].kind = "file" => fnOut[1][i].size <= 1048576
    /\ \A p \in WalkPaths :
         (fnArg[p].kind = "file" /\ fnArg[p].size > 1048576)
           => p \notin ReturnedPaths
    /\ \A p \in WalkPaths :
         (/\ fnArg[p] = RegularFile(1048576, TRUE)
          /\ ~Excluded[p] /\ SourceFile[p])
           => p \in ReturnedPaths

\* a symbolic link to a file above the bound is returned with that content
C7_LinkToLargeFile ==
  /\ fnOut # <<>>
  /\ fnArg["link.go"] = SymLink("big.go")
  /\ fnArg["big.go"] = RegularFile(1048577, TRUE)
  /\ \E i \in 1..Len(fnOut[1]) :
       fnOut[1][i].path = "link.go" /\ fnOut[1][i].size = 1048577

\* a file of exactly the bound is returned next to one above it left out
C7_ExactlyOneMegabyte ==
  /\ fnOut # <<>>
  /\ fnArg["big.go"] = RegularFile(1048576, TRUE)
  /\ fnArg["Makefile"] = RegularFile(1048577, TRUE)
  /\ "big.go" \in ReturnedPaths
  /\ "Makefile" \notin ReturnedPaths

(***************************************************************************)
(* Browser client: ClientBackend.cloneRepository                           *)
(***************************************************************************)
MaxTree == 2     \* longest repository tree answered by the GitHub API

\* const EXCLUDE_PATTERNS: the list of the Go backend
EXCLUDE_PATTERNS == excludePatterns

\* ClientBackend.shouldExcludeFile
ClientShouldExcludeFile(filePath) ==
  LET pathParts == Split(filePath, "/")
  IN  \E p \in 1..Len(EXCLUDE_PATTERNS) : \E q \in 1..Len(pathParts) :
        PatternExcludes(EXCLUDE_PATTERNS[p], pathParts[q])

\* an item of treeData.tree; a tree item has no size, written -1
TreeItem(path, type, size) == [path |-> path, type |-> type, size |-> size]

TreePool ==
  {TreeItem("src/app.js", "blob", 1200),
   TreeItem("src", "tree", -1),
   TreeItem("dist/bundle.js", "blob", 900),
   TreeItem("big.py", "blob", 60000),
   TreeItem("main.go", "blob", 49999)}

RepoTrees == SeqsUpTo(TreePool, MaxTree)

ClientSizeLimit == 50000
MaxFetch == 15

\* the list the filter looks the extension up in
ClientSourceExts == sourceExts

\* item.size < 50000; undefined < 50000 is false
ReasonableSize(item) == item.size # -1 /\ item.size < ClientSizeLimit

\* the filter callback of treeData.tree.filter
IsSelected(item) ==
  LET isBlob == item.type = "blob"
      isNotExcluded == ~ClientShouldExcludeFile(item.path)
      isReasonableSize == ReasonableSize(item)
      isSourceFile == ToLower(AfterLast(item.path, ".")) \in ClientSourceExts
  IN  isBlob /\ isNotExcluded /\ isReasonableSize /\ isSourceFile

RECURSIVE FilterSelected(_)
FilterSelected(tree) ==
  IF tree = <<>> THEN <<>>
  ELSE (IF IsSelected(Head(tree)) THEN <<Head(tree)>> ELSE <<>>)
         \o FilterSelected(Tail(tree))

\* Array.prototype.slice(0, n)
SliceFirst(list, n) == SubSeq(list, 1, Min({Len(list), n}))

ExampleCode == "<exampleCode>"     \* the example source text, 773 characters
ExampleCodeLength == 773

ContextPath(repoInfo) ==
  "repos/" \o repoInfo.owner \o "-" \o repoInfo.repo \o "-context.txt"

RepoResponse(message, files, repoInfo) ==
  [success |-> TRUE, message |-> message, filesCount |-> Len(files),
   contextPath |-> ContextPath(repoInfo), files |-> files, error |-> ""]

Rejected(message) ==
  [success |-> FALSE, message |-> "", filesCount |-> 0, contextPath |-> "",
   files |-> <<>>, error |-> message]

createFallbackResponse(repoInfo) ==
  RepoResponse("Repository cloned successfully (using fallback example)",
               <<[path |-> "example.js", content |-> ExampleCode,
                  size |-> ExampleCodeLength]>>,
               repoInfo)

\* the catch block of cloneRepository
CloneError(message) ==
  IF Contains(message, "CORS")
  THEN Rejected("CORS error: GitHub API calls are blocked by browser. This is a known limitation when running from localhost. Try deploying to Vercel or use a CORS proxy.")
  ELSE IF Contains(message, "404")
  THEN Rejected("Repository not found. Please check the URL and ensure the repository is public.")
  ELSE IF Contains(message, "403")
  THEN Rejected("GitHub API rate limit exceeded. Please try again later.")
  ELSE Rejected("Failed to clone repository: " \o message)

\* an answer of the GitHub API: the fetch rejects, or resolves with a status
HttpAnswers ==
  {[failed |-> TRUE, status |-> 0, statusText |-> ""],
   [failed |-> FALSE, status |-> 200, statusText |-> "OK"],
   [failed |-> FALSE, status |-> 404, statusText |-> "Not Found"],
   [failed |-> FALSE, status |-> 403, statusText |-> "Forbidden"]}

\* the error thrown for an answer that is not used, "" for a used one
AnswerError(answer) ==
  IF answer.failed THEN "Failed to fetch"
  ELSE IF answer.status # 200
       THEN "GitHub API error: " \o NatToStr(answer.status) \o " "
              \o answer.statusText
       ELSE ""

\* atob on the contents the API answers here
Atob(base64) ==
  CASE base64 = "YQ==" -> "a"
    [] base64 = "cGFja2FnZSBtYWlu" -> "package main"
    [] OTHER -> ""

\* the body of a contents answer: its type and its base64 content
ContentAnswers ==
  {[ok |-> TRUE, type |-> "file", content |-> "YQ=="],
   [ok |-> TRUE, type |-> "file", content |-> "cGFja2FnZSBtYWlu"],
   [ok |-> TRUE, type |-> "file", content |-> ""],
   [ok |-> TRUE, type |-> "dir", content |-> ""],
   [ok |-> FALSE, type |-> "", content |-> ""]}

\* the loop over limitedFiles with the answers to its requests
RECURSIVE FetchContents(_, _)
FetchContents(limitedFiles, answers) ==
  IF limitedFiles = <<>> THEN <<>>
  ELSE LET file == Head(limitedFiles)
           contentData == Head(answers)
       IN  (IF contentData.ok /\ contentData.content # ""
               /\ contentData.type = "file"
            THEN <<[path |-> file.path, content |-> Atob(contentData.content),
                    size |-> file.size]>>
            ELSE <<>>)
             \o FetchContents(Tail(limitedFiles), Tail(answers))

CloneUrls ==
  {"https://github.com/o/r", "https://github.com/my-org/my.repo.git",
   "not a url"}

DefaultBranches == {"", "dev"}

\* cb: the position of the one cloneRepository call, its locals, the
\* content requests it has issued and what it returned or threw
CloneCall(pc, repoInfo, branch, tree, requests, result) ==
  [pc |-> pc, repoInfo |-> repoInfo, branch |-> branch, tree |-> tree,
   requests |-> requests, result |-> result]

NoRepoInfo == [owner |-> "", repo |-> ""]

\* cloneRepository up to the first await
CloneStart ==
  /\ cb.pc = "idle"
  /\ \E repoUrl \in CloneUrls :
       LET parsed == ClientParseGitHubUrl(repoUrl)
           repoInfo == [owner |-> parsed.owner, repo |-> parsed.repo]
       IN  cb' = IF ~parsed.valid
                 THEN CloneCall("failed", NoRepoInfo, "", <<>>, <<>>,
                                <<CloneError("Invalid GitHub URL")>>)
                 ELSE CloneCall("repo", repoInfo, "", <<>>, <<>>, <<>>)
  /\ UNCHANGED <<fnArg, fnOut, disk, hnd, resp>>
  /\ UNCHANGED runnerVars

\* the answer to the repository request, up to the tree request
CloneRepoAnswer ==
  /\ cb.pc = "repo"
  /\ \E answer \in HttpAnswers, default_branch \in DefaultBranches :
       cb' = IF AnswerError(answer) # ""
             THEN [cb EXCEPT !.pc = "failed",
                             !.result = <<CloneError(AnswerError(answer))>>]
             ELSE [cb EXCEPT !.pc = "tree",
                             !.branch = IF default_branch # ""
                                        THEN default_branch ELSE "main"]
  /\ UNCHANGED <<fnArg, fnOut, disk, hnd, resp>>
  /\ UNCHANGED runnerVars

\* the answer to the tree request and the rest of cloneRepository: the
\* filter, the fallback, the content requests with their answers, the result
CloneTreeAnswer ==
  /\ cb.pc = "tree"
  /\ \E answer \in HttpAnswers, hasTree \in BOOLEAN, tree \in RepoTrees :
       IF AnswerError(answer) # ""
       THEN cb' = [cb EXCEPT !.pc = "failed",
                             !.result = <<CloneError(AnswerError(answer))>>]
       ELSE IF ~hasTree
       THEN cb' = [cb EXCEPT !.pc = "failed",
                             !.result = <<CloneError("No tree data found in GitHub API response")>>]
       ELSE LET sourceFiles == FilterSelected(tree)
                limitedFiles == SliceFirst(sourceFiles, MaxFetch)
            IN  IF Len(sourceFiles) = 0
                THEN cb' = [cb EXCEPT !.pc = "done", !.tree = tree,
                                      !.result = <<createFallbackResponse(cb.repoInfo)>>]
                ELSE \E answers \in [1..Len(limitedFiles) -> ContentAnswers] :
                       cb' = [cb EXCEPT
                                !.pc = "done", !.tree = tree,
                                !.requests = [i \in 1..Len(limitedFiles) |->
                                                limitedFiles[i].path],
                                !.result = <<RepoResponse(
                                               "Repository cloned successfully",
                                               FetchContents(limitedFiles, answers),
                                               cb.repoInfo)>>]
  /\ UNCHANGED <<fnArg, fnOut, disk, hnd, resp>>
  /\ UNCHANGED runnerVars

InitClone ==
  /\ cb = Idle
  /\ IdleRunner /\ IdleFn /\ IdleGo

NextClone == CloneStart \/ CloneRepoAnswer \/ CloneTreeAnswer

SpecClone == InitClone /\ [][NextClone]_vars

(***************************************************************************)
(* C5, C6                                                                  *)
(***************************************************************************)
\* the extensions of the documented file types
SupportedExtensions ==
  {".js", ".jsx", ".ts", ".tsx", ".py", ".java", ".cpp", ".c", ".cs", ".php",
   ".rb", ".go", ".rs", ".swift", ".kt", ".vue", ".svelte", ".html", ".css",
   ".scss", ".sass", ".less", ".json", ".yaml", ".yml", ".toml", ".ini",
   ".env", ".sql", ".sh", ".bat", ".ps1"}

\* a blob whose path ends in a supported extension, that is not excluded and
\* is smaller than 50000 bytes
SupportedBlob(item) ==
  /\ item.type = "blob"
  /\ \E e \in SupportedExtensions : HasSuffix(ToLower(item.path), e)
  /\ ~ClientShouldExcludeFile(item.path)
  /\ item.size < 50000

SupportedPaths(tree) ==
  {tree[i].path : i \in {j \in 1..Len(tree) : SupportedBlob(tree[j])}}

Cloned == cb.pc = "done"

ClonedFiles == cb.result[1].files

ClonedPaths == {ClonedFiles[i].path : i \in 1..Len(ClonedFiles)}

\* C5: for a tree with at least one blob of a supported extension that is
\* not excluded and is smaller than 50000 bytes, the returned files are files
\* of that repository and not the built-in fallback example.
C5_SupportedBlobsSelected ==
  (Cloned /\ SupportedPaths(cb.tree) # {}) =>
    /\ cb.result[1].message = "Repository cloned successfully"
    /\ ClonedPaths \subseteq SupportedPaths(cb.tree)

\* the tree holds src/app.js of 1200 bytes and the fallback example is returned
C5_FallbackForSupportedBlob ==
  /\ Cloned
  /\ cb.tree = <<TreeItem("src/app.js", "blob", 1200)>>
  /\ cb.result[1] = createFallbackResponse(cb.repoInfo)

\* no tree makes the filter select an item
C5_NothingSelected ==
  Cloned => FilterSelected(cb.tree) = <<>> /\ cb.requests = <<>>

\* C6: cloneRepository issues at most 15 content requests and returns at most
\* 15 files, taken in tree order from the first 15 selected source files,
\* and filesCount equals the length of the returned files list.
C6_AtMostFifteenFromSelected ==
  Cloned =>
    /\ Len(cb.requests) <= 15
    /\ Len(ClonedFiles) <= 15
    /\ ClonedPaths \subseteq SupportedPaths(cb.tree)
    /\ cb.result[1].filesCount = Len(ClonedFiles)

\* the counts of C6 alone
C6_Counts ==
  Cloned =>
    /\ Len(cb.requests) <= 15
    /\ Len(ClonedFiles) <= 15
    /\ cb.result[1].filesCount = Len(ClonedFiles)


\* two supported blobs in the tree, no content request issued and the one
\* returned file is the fallback example
C6_NoRequestForSelectedBlobs ==
  /\ Cloned
  /\ cb.tree = <<TreeItem("src/app.js", "blob", 1200),
                 TreeItem("main.go", "blob", 49999)>>
  /\ cb.requests = <<>>
  /\ ClonedPaths = {"example.js"}

(***************************************************************************)
(* Go backend: POST /api/clone-repo and GET /api/context/                  *)
(***************************************************************************)
MaxRequests == 3     \* requests the server receives
MaxHandlers == 2     \* clone handlers running at the same time

\* the repositories asked for: (owner, repo)
GoRepos == {<<"a", "b-c">>, <<"a-b", "c">>, <<"o", "r">>}

\* filepath.Join(reposDir, fmt.Sprintf("%s-%s", owner, repo))
ClonePath(owner, repo) == "repos/" \o owner \o "-" \o repo

\* filepath.Join(reposDir, fmt.Sprintf("%s-%s-context.txt", owner, repo))
GoContextPath(owner, repo) ==
  "repos/" \o owner \o "-" \o repo \o "-context.txt"

DiskPaths ==
  {ClonePath(p[1], p[2]) : p \in GoRepos}
    \cup {GoContextPath(p[1], p[2]) : p \in GoRepos}

\* what the repos directory holds at a path
Absent == [kind |-> "none", tree |-> <<>>, text |-> ""]
Dir(tree) == [kind |-> "dir", tree |-> <<tree>>, text |-> ""]
File(text) == [kind |-> "file", tree |-> <<>>, text |-> text]

\* the checkouts git makes: two states of a repository
NoFiles == [p \in WalkPaths |-> NoEntry]
Checkouts ==
  {[NoFiles EXCEPT !["big.go"] = RegularFile(10, TRUE)],
   [NoFiles EXCEPT !["big.go"] = RegularFile(10, TRUE),
                   !["Makefile"] = RegularFile(10, TRUE)]}

\* a request to /api/clone-repo
CloneRequest(method, validJSON, repoUrl) ==
  [method |-> method, validJSON |-> validJSON, repoUrl |-> repoUrl]

CloneRequests ==
  {CloneRequest("POST", TRUE, "https://github.com/" \o p[1] \o "/" \o p[2]) :
     p \in GoRepos}
    \cup {CloneRequest("OPTIONS", TRUE, ""), CloneRequest("GET", TRUE, ""),
          CloneRequest("POST", FALSE, ""), CloneRequest("POST", TRUE, ""),
          CloneRequest("POST", TRUE, "https://github.com/o")}

\* r.URL.Path of a request to /api/context/
ContextRequestPaths ==
  {"/api/context/" \o p[1] \o "/" \o p[2] : p \in GoRepos}
    \cup {"/api/context/o", "/api/context/o/r/x"}

\* a response: the handler and what it was asked, the status, the message
\* of http.Error or the JSON fields of the answer
Response(handler, asked, status, error, context, files) ==
  [handler |-> handler, asked |-> asked, status |-> status, error |-> error,
   context |-> context, files |-> files]

NoResponse == Response("", "", 0, "", "", <<>>)

FreeHandler == [pc |-> "free", owner |-> "", repo |-> ""]

\* one more response; a successful clone is noted as the latest of its
\* repository
Respond(response) ==
  resp' = [resp EXCEPT !.last = response, !.count = resp.count + 1]

\* the request as sent: the method and the body
RequestText(req) ==
  req.method \o " "
    \o (IF req.validJSON THEN "{\"repoUrl\": \"" \o req.repoUrl \o "\"}"
        ELSE "{")

\* no answer before the work starts
NoAnswer == [status |-> 0, error |-> ""]

\* the checks of cloneRepoHandler without the test for an empty repoUrl
CloneRequestAnswerNoEmptyTest(req) ==
  IF req.method = "OPTIONS" THEN [status |-> 200, error |-> ""]
  ELSE IF req.method # "POST"
  THEN [status |-> 405, error |-> "Method not allowed"]
  ELSE IF ~req.validJSON THEN [status |-> 400, error |-> "Invalid JSON"]
  ELSE IF ~parseGitHubURL(req.repoUrl).valid
  THEN [status |-> 400, error |-> "Invalid GitHub URL"]
  ELSE NoAnswer

\* the checks of cloneRepoHandler: the answer that ends the handler, or
\* NoAnswer for a request that passes them
CloneRequestAnswer(req) ==
  IF req.method = "OPTIONS" THEN [status |-> 200, error |-> ""]
  ELSE IF req.method # "POST"
  THEN [status |-> 405, error |-> "Method not allowed"]
  ELSE IF ~req.validJSON THEN [status |-> 400, error |-> "Invalid JSON"]
  ELSE IF req.repoUrl = ""
  THEN [status |-> 400, error |-> "Repository URL is required"]
  ELSE IF ~parseGitHubURL(req.repoUrl).valid
  THEN [status |-> 400, error |-> "Invalid GitHub URL"]
  ELSE NoAnswer

\* the checks and the parsed URL of each request, computed once
CloneRequestChecks ==
  [req \in CloneRequests |->
     [answer |-> CloneRequestAnswer(req), text |-> RequestText(req),
      parsed |-> parseGitHubURL(req.repoUrl)]]

\* cloneRepoHandler up to the start of git: the checks of the request,
\* os.MkdirAll, and cloneRepository's removal of an existing directory
CloneRepoBegin(h) ==
  /\ hnd[h].pc = "free"
  /\ resp.count + Cardinality({k \in DOMAIN hnd : hnd[k].pc # "free"})
       < MaxRequests
  /\ \E req \in CloneRequests :
       LET parsed == CloneRequestChecks[req].parsed
           clonePath == ClonePath(parsed.owner, parsed.repo)
           answer == CloneRequestChecks[req].answer
       IN  IF answer # NoAnswer
           THEN /\ Respond(Response("clone", CloneRequestChecks[req].text,
                                    answer.status, answer.error, "", <<>>))
                /\ UNCHANGED <<hnd, disk>>
           ELSE /\ hnd' = [hnd EXCEPT ![h] = [pc |-> "clone",
                                              owner |-> parsed.owner,
                                              repo |-> parsed.repo]]
                /\ disk' = [disk EXCEPT ![clonePath] = Absent]
                /\ UNCHANGED resp
  /\ UNCHANGED <<fnArg, fnOut, cb>>
  /\ UNCHANGED runnerVars

\* the end of git clone --depth 1: it fails (by itself, or because the
\* destination exists and is not empty) or has made the checkout
GitCloneExit(h) ==
  /\ hnd[h].pc = "clone"
  /\ LET clonePath == ClonePath(hnd[h].owner, hnd[h].repo)
         asked == hnd[h].owner \o "/" \o hnd[h].repo
     IN  \E ok \in BOOLEAN, checkout \in Checkouts :
           IF ok /\ disk[clonePath].kind = "none"
           THEN /\ disk' = [disk EXCEPT ![clonePath] = Dir(checkout)]
                /\ hnd' = [hnd EXCEPT ![h].pc = "read"]
                /\ UNCHANGED resp
           ELSE /\ Respond(Response("clone", asked, 500,
                                    "Failed to clone repository", "", <<>>))
                /\ hnd' = [hnd EXCEPT ![h] = FreeHandler]
                /\ UNCHANGED disk
  /\ UNCHANGED <<fnArg, fnOut, cb>>
  /\ UNCHANGED runnerVars

\* readRepositoryFiles and generatePromptContext on each checkout, computed
\* once
CheckoutContexts ==
  [checkout \in Checkouts |->
     [files |-> readRepositoryFiles(checkout),
      context |-> generatePromptContext(readRepositoryFiles(checkout))]]

\* the rest of cloneRepoHandler: readRepositoryFiles, generatePromptContext,
\* os.WriteFile, os.RemoveAll and the response; os.WriteFile fails on a
\* directory and when the system refuses the write (written is false)
CloneRepoFinish(h) ==
  /\ hnd[h].pc = "read"
  /\ \E written \in BOOLEAN :
     LET owner == hnd[h].owner
         repo == hnd[h].repo
         asked == owner \o "/" \o repo
         clonePath == ClonePath(owner, repo)
         contextPath == GoContextPath(owner, repo)
         files == CheckoutContexts[disk[clonePath].tree[1]].files
         context == CheckoutContexts[disk[clonePath].tree[1]].context
     IN  IF disk[clonePath].kind # "dir"
         THEN /\ Respond(Response("clone", asked, 500,
                                  "Failed to read repository files", "", <<>>))
              /\ UNCHANGED disk
         ELSE IF disk[contextPath].kind = "dir" \/ ~written
         THEN /\ Respond(Response("clone", asked, 500,
                                  "Failed to save context file", "", <<>>))
              /\ UNCHANGED disk
         ELSE /\ disk' = [disk EXCEPT ![contextPath] = File(context),
                                      ![clonePath] = Absent]
              /\ resp' = [resp EXCEPT
                            !.last = Response("clone", asked, 200, "", "", files),
                            !.count = resp.count + 1,
                            !.latest[<<owner, repo>>] = <<context>>]
  /\ hnd' = [hnd EXCEPT ![h] = FreeHandler]
  /\ UNCHANGED <<fnArg, fnOut, cb>>
  /\ UNCHANGED runnerVars

\* strings.TrimPrefix
TrimPrefix(s, p) == IF HasPrefix(s, p) THEN Slice(s, Len(p), Len(s)) ELSE s

\* the path after /api/context/ and its parts, computed once
ContextRequestParts ==
  [urlPath \in ContextRequestPaths |->
     [path |-> TrimPrefix(urlPath, "/api/context/"),
      parts |-> Split(TrimPrefix(urlPath, "/api/context/"), "/")]]

\* getContextHandler for a GET request
GetContext ==
  /\ resp.count + Cardinality({k \in DOMAIN hnd : hnd[k].pc # "free"})
       < MaxRequests
  /\ \E urlPath \in ContextRequestPaths :
       LET path == ContextRequestParts[urlPath].path
           parts == ContextRequestParts[urlPath].parts
           contextPath == GoContextPath(parts[1], parts[2])
           answer(status, error, context) ==
             Respond(Response("context", path, status, error, context, <<>>))
       IN  IF Len(parts) # 2 THEN answer(400, "Invalid path", "")
           ELSE IF contextPath \notin DOMAIN disk
                   \/ disk[contextPath].kind = "none"
           THEN answer(404, "Context file not found", "")
           ELSE IF disk[contextPath].kind # "file"
           THEN answer(500, "Failed to read context file", "")
           ELSE answer(200, "", disk[contextPath].text)
  /\ UNCHANGED <<hnd, disk>>
  /\ UNCHANGED <<fnArg, fnOut, cb>>
  /\ UNCHANGED runnerVars

\* main: the repos directory exists and is empty, no request has come
InitGo ==
  /\ disk = [p \in DiskPaths |-> Absent]
  /\ hnd = [h \in 1..MaxHandlers |-> FreeHandler]
  /\ resp = [last |-> NoResponse, count |-> 0,
             latest |-> [p \in GoRepos |-> <<>>]]
  /\ IdleRunner /\ IdleFn /\ IdleClone

NextGo ==
  \/ \E h \in 1..MaxHandlers : CloneRepoBegin(h)
  \/ \E h \in 1..MaxHandlers : GitCloneExit(h)
  \/ \E h \in 1..MaxHandlers : CloneRepoFinish(h)
  \/ GetContext

SpecGo == InitGo /\ [][NextGo]_vars

(***************************************************************************)
(* C8                                                                      *)
(***************************************************************************)
\* the last response answers GET /api/context/{owner}/{repo}
ContextAsked(owner, repo) ==
  resp.last.handler = "context" /\ resp.last.asked = owner \o "/" \o repo

\* C8: /api/context/{owner}/{repo} answers with the context of the most
\* recent successful clone of that owner/repo, with 404 'Context file not
\* found' when no clone of that owner/repo has succeeded, and with 400 when
\* the path does not have exactly two segments.
C8_ContextOfLatestClone ==
  /\ \A p \in GoRepos :
       ContextAsked(p[1], p[2]) =>
         IF resp.latest[p] = <<>>
         THEN /\ resp.last.status = 404
              /\ resp.last.error = "Context file not found"
         ELSE /\ resp.last.status = 200
              /\ resp.last.context = resp.latest[p][1]
  /\ (resp.last.handler = "context" /\ resp.last.asked \in {"o", "o/r/x"})
       => resp.last.status = 400

\* the same for the repository whose file names no other repository shares
C8_ContextOfLatestCloneNoDash ==
  /\ ContextAsked("o", "r") =>
       IF resp.latest[<<"o", "r">>] = <<>>
       THEN /\ resp.last.status = 404
            /\ resp.last.error = "Context file not found"
       ELSE /\ resp.last.status = 200
            /\ resp.last.context = resp.latest[<<"o", "r">>][1]
  /\ (resp.last.handler = "context" /\ resp.last.asked \in {"o", "o/r/x"})
       => resp.last.status = 400

\* a-b/c was never cloned and its context request is answered with the
\* context of a/b-c
C8_ContextOfOtherRepository ==
  /\ ContextAsked("a-b", "c")
  /\ resp.latest[<<"a-b", "c">>] = <<>>
  /\ resp.latest[<<"a", "b-c">>] # <<>>
  /\ resp.last.status = 200
  /\ resp.last.context = resp.latest[<<"a", "b-c">>][1]

\* the context request for o/r is answered with the context of its latest
\* successful clone
C8_SecondCloneAnswered ==
  /\ ContextAsked("o", "r")
  /\ resp.last.status = 200
  /\ resp.last.context = resp.latest[<<"o", "r">>][1]
  /\ Contains(resp.last.context, "Makefile")

(***************************************************************************)
(* C11                                                                     *)
(***************************************************************************)
\* the extension of a path: what follows the last dot of its last element,
\* in lower case; none without a dot
ExtensionOf(path) ==
  LET name == AfterLast(path, "/")
  IN  IF Contains(name, ".") THEN ToLower(AfterLast(name, ".")) ELSE ""

\* the section the claim gives a file
ClaimedSection(file) ==
  IF ExtensionOf(file.path) = "go" THEN "go"
  ELSE IF \/ ExtensionOf(file.path) \in
               {"json", "yaml", "yml", "toml", "ini", "env"}
          \/ Contains(ToLower(file.path), "go.mod")
          \/ Contains(ToLower(file.path), "go.sum")
       THEN "config"
       ELSE "other"

\* the files of one section in input order, under its header when there
\* is one
ClaimedPart(title, files, section) ==
  LET group == SelectSeq(files, LAMBDA f : ClaimedSection(f) = section)
  IN  IF group = <<>> THEN ""
      ELSE title \o "\n\n" \o FileEntries(group)

ClaimedContext(files) ==
  ContextHeader
    \o ClaimedPart("=== GO SOURCE FILES ===", files, "go")
    \o ClaimedPart("=== CONFIGURATION FILES ===", files, "config")
    \o ClaimedPart("=== OTHER FILES ===", files, "other")
    \o ContextFooter

\* C11: the context holds every input file once, in the sections Go source,
\* configuration, other in this order, a header exactly for a non-empty
\* section, input order kept inside a section; .go files are in the Go
\* section, files with a configuration extension or go.mod / go.sum in the
\* path in the configuration section, all others in the other section.
C11_ContextSections ==
  \A out \in {fnOut.go, fnOut.ts} :
    Len(out) = 1 => out[1] = ClaimedContext(fnArg)

\* the Go backend's context has the sections of the claim
C11_GoContextSections ==
  Len(fnOut.go) = 1 => fnOut.go[1] = ClaimedContext(fnArg)

\* the client lists a file named json, which has no extension, under the
\* configuration files
C11_NoExtensionAsConfiguration ==
  /\ fnArg = <<FileContent("json", "[]"), FileContent("main.go", "package main")>>
  /\ Len(fnOut.ts) = 1
  /\ Contains(fnOut.ts[1], "=== CONFIGURATION FILES ===\n\n// File: json\n")

(***************************************************************************)
(* shouldExcludeFile on paths (Go backend and browser client)              *)
(***************************************************************************)
MaxDepth == 1     \* directories above the named part of a path

RECURSIVE Above(_)
\* "", "src/", "src/src/", ...
Above(depth) == IF depth = 0 THEN "" ELSE "src/" \o Above(depth - 1)

NamedDirectories ==
  {"node_modules", ".git", "dist", "build", "test", "tests", "__tests__",
   "docs", "documentation"}

NamedFiles ==
  {"package.json", "tsconfig.json", "README.md", "LICENSE", "app.js",
   "main.go", "catalog.go", "distance.go", "latest.go"}

ExcludePaths ==
  {Above(k) \o dir \o "/x.js" : k \in 0..MaxDepth, dir \in NamedDirectories}
    \cup {Above(k) \o name : k \in 0..MaxDepth, name \in NamedFiles}

InitExclude ==
  /\ fnArg \in ExcludePaths
  /\ fnOut = NoCalls
  /\ IdleRunner /\ IdleClone /\ IdleGo

ShouldExcludeFileCall ==
  /\ fnOut.go = <<>>
  /\ fnOut' = [fnOut EXCEPT !.go = <<shouldExcludeFile(fnArg)>>]
  /\ UNCHANGED <<fnArg, cb, disk, hnd, resp>>
  /\ UNCHANGED runnerVars

ClientShouldExcludeFileCall ==
  /\ fnOut.ts = <<>>
  /\ fnOut' = [fnOut EXCEPT !.ts = <<ClientShouldExcludeFile(fnArg)>>]
  /\ UNCHANGED <<fnArg, cb, disk, hnd, resp>>
  /\ UNCHANGED runnerVars

NextExclude == ShouldExcludeFileCall \/ ClientShouldExcludeFileCall

SpecExclude == InitExclude /\ [][NextExclude]_vars

(***************************************************************************)
(* C12                                                                     *)
(***************************************************************************)
Segments(path) == {Split(path, "/")[i] : i \in 1..Len(Split(path, "/"))}

Directories(path) ==
  {Split(path, "/")[i] : i \in 1..(Len(Split(path, "/")) - 1)}

\* the paths the documentation lists, but for the files named in files
ListedUnnecessary(path, files) ==
  \/ Segments(path) \cap {"node_modules", ".git", "dist", "build"} # {}
  \/ AfterLast(path, "/") \in files
  \/ Directories(path)
       \cap {"test", "tests", "__tests__", "docs", "documentation"} # {}

\* C12: shouldExcludeFile is true for every path with a segment
\* node_modules, .git, dist or build, for package.json and tsconfig.json, for
\* README.md and LICENSE, and for every path inside a directory test, tests,
\* __tests__, docs or documentation.
C12_ListedFilesExcluded ==
  \A out \in {fnOut.go, fnOut.ts} :
    (/\ Len(out) = 1
     /\ ListedUnnecessary(fnArg, {"package.json", "tsconfig.json",
                                  "README.md", "LICENSE"}))
      => out[1]

\* the same without package.json
C12_ListedButPackageJson ==
  \A out \in {fnOut.go, fnOut.ts} :
    (/\ Len(out) = 1
     /\ ListedUnnecessary(fnArg, {"tsconfig.json", "README.md", "LICENSE"}))
      => out[1]

\* package.json is not excluded
C12_PackageJsonKept ==
  /\ fnArg = "package.json"
  /\ fnOut.go = <<FALSE>>
  /\ fnOut.ts = <<FALSE>>

(***************************************************************************)
(* C13                                                                     *)
(***************************************************************************)
ImportantNames ==
  {"dockerfile", "makefile", "readme", "license", "changelog", "contributing",
   "docker-compose", "package", "composer", "requirements", "pom", "gradle",
   "gemfile", "cargo", "go.mod", "go.sum"}

\* the lower-cased base name of the path contains an important name
ImportantName(path) ==
  \E name \in ImportantNames : Contains(ToLower(AfterLast(path, "/")), name)

ImportantPath == [p \in WalkPaths |-> ImportantName(p)]

\* a readable regular file of at most 1 MB
SmallRegularFile(entry) ==
  entry.kind = "file" /\ entry.readable /\ entry.size <= 1048576

\* C13: readRepositoryFiles returns every regular file of at most 1 MB whose
\* lower-cased base name contains one of the important names, whatever its
\* extension.
C13_ImportantFilesReturned ==
  fnOut # <<>> =>
    \A p \in WalkPaths :
      (SmallRegularFile(fnArg[p]) /\ ImportantPath[p]) => p \in ReturnedPaths

\* the important files that shouldExcludeFile does not exclude are returned
C13_ImportantNotExcludedReturned ==
  fnOut # <<>> =>
    \A p \in WalkPaths :
      (SmallRegularFile(fnArg[p]) /\ ImportantPath[p] /\ ~Excluded[p])
        => p \in ReturnedPaths

\* LICENSE is left out, Makefile is returned
C13_LicenseLeftOut ==
  /\ fnOut # <<>>
  /\ fnArg["LICENSE"] = RegularFile(10, TRUE)
  /\ fnArg["Makefile"] = RegularFile(10, TRUE)
  /\ "LICENSE" \notin ReturnedPaths
  /\ "Makefile" \in ReturnedPaths

(***************************************************************************)
(* "Add unique IDs if missing" (Go handler, browser client, dashboard)     *)
(***************************************************************************)
IdCasePool ==
  GeminiCasePool
    \cup {[id |-> "", name |-> "joins", input |-> JsNull, expected |-> JsNum(1),
           code |-> "1 + 1", testType |-> "integration", priority |-> "low"]}

AiResponses == SeqsUpTo(IdCasePool, MaxTests)

\* the client's step numbering from zero: `test_${index}`
ClientAddUniqueIDsFromZero(cases) ==
  [i \in 1..Len(cases) |->
     [cases[i] EXCEPT
        !.id = IF cases[i].id = "" THEN "test_" \o NumToStr(i - 1)
               ELSE cases[i].id,
        !.testType = IF cases[i].testType = "" THEN "unit" ELSE cases[i].testType,
        !.priority = IF cases[i].priority = "" THEN "medium"
                     ELSE cases[i].priority]]

\* ClientBackend.generateTests: parsedResponse.testCases.map(...);
\* an absent field is undefined, which like '' is falsy
ClientAddUniqueIDs(parsed) ==
  [index \in 1..Len(parsed) |->
     [parsed[index] EXCEPT
        !.id = IF parsed[index].id # "" THEN parsed[index].id
               ELSE "test_" \o NumToStr(index),
        !.testType = IF parsed[index].testType # ""
                     THEN parsed[index].testType ELSE "unit",
        !.priority = IF parsed[index].priority # ""
                     THEN parsed[index].priority ELSE "medium"]]

\* the results of the Go handler, of the client, and of the dashboard's
\* conversion of the Go handler's response
NoIdCalls == [go |-> <<>>, ts |-> <<>>, app |-> <<>>]

InitIds ==
  /\ fnArg \in AiResponses
  /\ fnOut = NoIdCalls
  /\ IdleRunner /\ IdleClone /\ IdleGo

AddUniqueIDsCall ==
  /\ fnOut.go = <<>>
  /\ fnOut' = [fnOut EXCEPT !.go = <<AddUniqueIDs(fnArg)>>]
  /\ UNCHANGED <<fnArg, cb, disk, hnd, resp>>
  /\ UNCHANGED runnerVars

ClientAddUniqueIDsCall ==
  /\ fnOut.ts = <<>>
  /\ fnOut' = [fnOut EXCEPT !.ts = <<ClientAddUniqueIDs(fnArg)>>]
  /\ UNCHANGED <<fnArg, cb, disk, hnd, resp>>
  /\ UNCHANGED runnerVars

ConvertCall ==
  /\ fnOut.go # <<>>
  /\ fnOut.app = <<>>
  /\ fnOut' = [fnOut EXCEPT
                 !.app = <<convertGeminiTestsToAppFormat(fnOut.go[1])>>]
  /\ UNCHANGED <<fnArg, cb, disk, hnd, resp>>
  /\ UNCHANGED runnerVars

NextIds == AddUniqueIDsCall \/ ClientAddUniqueIDsCall \/ ConvertCall

SpecIds == InitIds /\ [][NextIds]_vars

(***************************************************************************)
(* C14, C15                                                                *)
(***************************************************************************)
\* the 1-based position as a text
PositionText(position) == <<"1", "2", "3", "4", "5">>[position]

OrDefault(value, default) == IF value = "" THEN default ELSE value

\* C14: every test case of a response has a non-empty id, testType and
\* priority: a missing or empty id is test_<1-based position>, a missing
\* testType is 'unit', a missing priority is 'medium', present values are
\* unchanged, and the cases are those of the AI response in number and order.
C14_IdTypePriorityDefaults ==
  \A out \in {fnOut.go, fnOut.ts, fnOut.app} :
    Len(out) = 1 =>
      /\ Len(out[1]) = Len(fnArg)
      /\ \A i \in 1..Len(fnArg) :
           /\ out[1][i].id # "" /\ out[1][i].testType # ""
           /\ out[1][i].priority # ""
           /\ out[1][i].id = OrDefault(fnArg[i].id, "test_" \o PositionText(i))
           /\ out[1][i].testType = OrDefault(fnArg[i].testType, "unit")
           /\ out[1][i].priority = OrDefault(fnArg[i].priority, "medium")
           /\ out[1][i].name = fnArg[i].name
           /\ out[1][i].code = fnArg[i].code
           /\ out[1][i].input = fnArg[i].input
           /\ out[1][i].expected = fnArg[i].expected

\* a response whose second case has no id, testType and priority and whose
\* first case has them all went through the three steps
C14_Witness ==
  /\ Len(fnOut.go) = 1 /\ Len(fnOut.ts) = 1 /\ Len(fnOut.app) = 1
  /\ Len(fnArg) = 2
  /\ fnArg[1].id = "t1" /\ fnArg[2].id = "" /\ fnArg[2].testType = ""
  /\ fnOut.go[1][2].id = "test_2" /\ fnOut.ts[1][2].priority = "medium"
  /\ fnOut.app[1][1].id = "t1"

\* some cases carry an id, others do not, and no two carry the same id
MixedIds(cases) ==
  /\ \E i \in 1..Len(cases) : cases[i].id = ""
  /\ \E i \in 1..Len(cases) : cases[i].id # ""
  /\ \A i, j \in 1..Len(cases) :
       (i # j /\ cases[i].id # "") => cases[i].id # cases[j].id

Distinct(cases) ==
  \A i, j \in 1..Len(cases) : i # j => cases[i].id # cases[j].id

\* C15: after the step the ids of one response are pairwise distinct when
\* some of its cases carried an id and others did not.
C15_IdsDistinct ==
  \A out \in {fnOut.go, fnOut.ts, fnOut.app} :
    (Len(out) = 1 /\ MixedIds(fnArg)) => Distinct(out[1])

\* the case without id in second place gets the id test_2 that the first
\* case carries
C15_GeneratedIdTaken ==
  /\ Len(fnArg) = 2 /\ fnArg[1].id = "test_2" /\ fnArg[2].id = ""
  /\ Len(fnOut.go) = 1 /\ Len(fnOut.ts) = 1 /\ Len(fnOut.app) = 1
  /\ fnOut.go[1][1].id = "test_2" /\ fnOut.go[1][2].id = "test_2"
  /\ fnOut.ts[1][2].id = "test_2" /\ fnOut.app[1][2].id = "test_2"

(***************************************************************************)
(* C16                                                                     *)
(***************************************************************************)
\* the answer the claim gives a request that is turned away
ClaimedCloneAnswer(req) ==
  CASE req.method = "OPTIONS" -> <<200, "">>
    [] req.method \notin {"OPTIONS", "POST"} -> <<405, "Method not allowed">>
    [] req.method = "POST" /\ ~req.validJSON -> <<400, "Invalid JSON">>
    [] req.method = "POST" /\ req.validJSON /\ req.repoUrl = ""
         -> <<400, "Repository URL is required">>
    [] OTHER -> <<400, "Invalid GitHub URL">>

\* the requests the claim is about: all but a POST of a parsable URL
TurnedAway(req) ==
  ~(req.method = "POST" /\ req.validJSON /\ req.repoUrl # ""
    /\ MatchOwnerRepo(CleanURL(req.repoUrl)) # <<>>)

\* C16: /api/clone-repo answers an OPTIONS request 200, another non-POST
\* method 405, invalid JSON 400, an empty repoUrl 400 'Repository URL is
\* required', a URL that parseGitHubURL rejects 400 'Invalid GitHub URL', and
\* in these cases runs no git clone, removes no directory and writes no
\* context file.
C16_ValidatedBeforeWork ==
  [][\A req \in CloneRequests :
       (/\ resp'.count = resp.count + 1
        /\ resp'.last.handler = "clone"
        /\ resp'.last.asked = RequestText(req))
         => /\ TurnedAway(req)
            /\ <<resp'.last.status, resp'.last.error>> = ClaimedCloneAnswer(req)
            /\ disk' = disk
            /\ hnd' = hnd]_vars

\* a POST of a URL without a repository part was answered 400 while a clone
\* directory and a context file existed and another handler was cloning
C16_Witness ==
  /\ resp.last.handler = "clone"
  /\ resp.last.asked = "POST {\"repoUrl\": \"https://github.com/o\"}"
  /\ resp.last.status = 400 /\ resp.last.error = "Invalid GitHub URL"
  /\ \E p \in DiskPaths : disk[p].kind = "file"
  /\ \E h \in DOMAIN hnd : hnd[h].pc = "read"

\* every request that is turned away was answered at least once: the empty
\* repoUrl
C16_WitnessEmptyUrl ==
  /\ resp.last.handler = "clone"
  /\ resp.last.asked = "POST {\"repoUrl\": \"\"}"
  /\ resp.last.error = "Repository URL is required"

(***************************************************************************)
(* Go backend: POST /api/generate-tests                                    *)
(***************************************************************************)
\* a request to /api/generate-tests; an absent field of the body is ""
GenerateRequest(method, validJSON, apiKey, codeContext) ==
  [method |-> method, validJSON |-> validJSON, apiKey |-> apiKey,
   codeContext |-> codeContext]

GenerateRequests ==
  {GenerateRequest(m, TRUE, k, c) :
     m \in {"OPTIONS", "GET", "POST"}, k \in {"", "key"}, c \in {"", "code"}}
    \cup {GenerateRequest("POST", FALSE, "", "")}

GenerateRequestText(req) ==
  req.method \o " "
    \o (IF req.validJSON
        THEN "{\"apiKey\": \"" \o req.apiKey \o "\", \"codeContext\": \""
               \o req.codeContext \o "\"}"
        ELSE "{")

\* the checks of generateTestsHandler with the code context tested first
GenerateRequestAnswerContextFirst(req) ==
  IF req.method = "OPTIONS" THEN [status |-> 200, error |-> ""]
  ELSE IF req.method # "POST"
  THEN [status |-> 405, error |-> "Method not allowed"]
  ELSE IF ~req.validJSON THEN [status |-> 400, error |-> "Invalid JSON"]
  ELSE IF req.codeContext = ""
  THEN [status |-> 400, error |-> "Code context is required"]
  ELSE IF req.apiKey = ""
  THEN [status |-> 400, error |-> "API Key is required"]
  ELSE NoAnswer

\* the checks of generateTestsHandler: the answer that ends the handler, or
\* NoAnswer for a request that passes them
GenerateRequestAnswer(req) ==
  IF req.method = "OPTIONS" THEN [status |-> 200, error |-> ""]
  ELSE IF req.method # "POST"
  THEN [status |-> 405, error |-> "Method not allowed"]
  ELSE IF ~req.validJSON THEN [status |-> 400, error |-> "Invalid JSON"]
  ELSE IF req.apiKey = ""
  THEN [status |-> 400, error |-> "API Key is required"]
  ELSE IF req.codeContext = ""
  THEN [status |-> 400, error |-> "Code context is required"]
  ELSE NoAnswer

\* what http.Post and the reading of the body give: an error, or a status
\* and a body; the body is JSON or not, its first candidate's first part
\* has a text or the body lacks what "missing" names
GeminiAnswer(failed, status, json, missing, text) ==
  [failed |-> failed, status |-> status, json |-> json, missing |-> missing,
   text |-> text]

\* generated texts and the test cases json.Unmarshal reads from their JSON
\* candidate; <<>> for an error of json.Unmarshal
GeneratedJson ==
  [t \in {"Sorry, no tests.",
          "Tests: {\"testCases\": [}",
          "{\"testCases\": []}",
          "Here: {\"testCases\": [{\"name\": \"multiplies\"}]}"} |->
     CASE t = "{\"testCases\": []}" -> <<<<>>>>
       [] t = "Here: {\"testCases\": [{\"name\": \"multiplies\"}]}" ->
            <<<<[id |-> "", name |-> "multiplies", input |-> JsNull,
                 expected |-> JsNull, code |-> "", testType |-> "",
                 priority |-> ""]>>>>
       [] OTHER -> <<>>]

GeminiAnswers ==
  {GeminiAnswer(TRUE, 0, FALSE, "", ""),
   GeminiAnswer(FALSE, 429, TRUE, "", ""),
   GeminiAnswer(FALSE, 200, FALSE, "", "")}
    \cup {GeminiAnswer(FALSE, 200, TRUE, m, "") :
            m \in {"candidates", "candidate", "content", "parts", "part",
                   "text"}}
    \cup {GeminiAnswer(FALSE, 200, TRUE, "", t) : t \in DOMAIN GeneratedJson}

GenerateResponse(asked, status, error, cases) ==
  [handler |-> "generate", asked |-> asked, status |-> status,
   error |-> error, testCases |-> cases]

\* generateTestsHandler after http.Post returned: <<status, error, cases>>
GenerateOutcome(answer) ==
  LET fail(error) == <<500, error, <<>>>>
      extracted == GoExtractJson(answer.text)
      cases == GeneratedJson[answer.text]
  IN  IF answer.failed THEN fail("Failed to call Gemini API")
      ELSE IF answer.status # 200 THEN fail("Gemini API error")
      ELSE IF ~answer.json THEN fail("Failed to parse Gemini response")
      ELSE IF answer.missing = "candidates"
      THEN fail("Invalid Gemini response format")
      ELSE IF answer.missing # ""
      THEN fail("Invalid " \o answer.missing \o " format")
      ELSE IF extracted.error # "" THEN fail(extracted.error)
      ELSE IF cases = <<>>
      THEN fail("Failed to parse test cases from Gemini response")
      ELSE <<200, "", AddUniqueIDs(cases[1])>>

WaitingHandler(req) == [pc |-> "waiting", req |-> req]

NoGenerateHandler ==
  [pc |-> "free", req |-> GenerateRequest("", FALSE, "", "")]

\* generateTestsHandler up to http.Post
GenerateTestsBegin ==
  /\ hnd.pc = "free"
  /\ resp.count + resp.sent < MaxRequests + resp.answered
  /\ \E req \in GenerateRequests :
       LET answer == GenerateRequestAnswer(req)
       IN  IF answer # NoAnswer
           THEN /\ resp' = [resp EXCEPT
                              !.last = GenerateResponse(GenerateRequestText(req),
                                         answer.status, answer.error, <<>>),
                              !.count = resp.count + 1]
                /\ UNCHANGED hnd
           ELSE /\ hnd' = WaitingHandler(req)
                /\ resp' = [resp EXCEPT !.sent = resp.sent + 1]
  /\ UNCHANGED <<fnArg, fnOut, cb, disk>>
  /\ UNCHANGED runnerVars

\* generateTestsHandler from the return of http.Post to its end
GenerateTestsFinish ==
  /\ hnd.pc = "waiting"
  /\ \E answer \in GeminiAnswers :
       LET outcome == GenerateOutcome(answer)
       IN  resp' = [resp EXCEPT
                      !.last = GenerateResponse(GenerateRequestText(hnd.req),
                                 outcome[1], outcome[2], outcome[3]),
                      !.count = resp.count + 1,
                      !.answered = resp.answered + 1]
  /\ hnd' = NoGenerateHandler
  /\ UNCHANGED <<fnArg, fnOut, cb, disk>>
  /\ UNCHANGED runnerVars

InitGenerate ==
  /\ hnd = NoGenerateHandler
  /\ resp = [last |-> GenerateResponse("", 0, "", <<>>), count |-> 0,
             sent |-> 0, answered |-> 0]
  /\ disk = <<>>
  /\ IdleRunner /\ IdleFn /\ IdleClone

NextGenerate == GenerateTestsBegin \/ GenerateTestsFinish

SpecGenerate == InitGenerate /\ [][NextGenerate]_vars

(***************************************************************************)
(* C17                                                                     *)
(***************************************************************************)
\* a request with method POST, a JSON body, an apiKey and a codeContext
Complete(req) ==
  req.method = "POST" /\ req.validJSON /\ req.apiKey # ""
    /\ req.codeContext # ""

\* the answer the claim gives an incomplete request that is not OPTIONS
ClaimedGenerateAnswer(req) ==
  CASE req.method # "POST" -> <<405, "Method not allowed">>
    [] req.method = "POST" /\ ~req.validJSON -> <<400, "Invalid JSON">>
    [] req.method = "POST" /\ req.validJSON /\ req.apiKey = ""
         -> <<400, "API Key is required">>
    [] OTHER -> <<400, "Code context is required">>

\* C17: /api/generate-tests answers a method other than POST and OPTIONS 405,
\* invalid JSON 400, an empty apiKey 400 'API Key is required' and, with an
\* apiKey, an empty codeContext 400 'Code context is required', and in none
\* of these cases sends a request to Gemini.
C17_IncompleteNotSent ==
  [][/\ \A req \in GenerateRequests :
          (/\ resp'.count = resp.count + 1
           /\ resp'.last.asked = GenerateRequestText(req)
           /\ ~Complete(req) /\ req.method # "OPTIONS")
            => /\ <<resp'.last.status, resp'.last.error>>
                    = ClaimedGenerateAnswer(req)
               /\ resp'.sent = resp.sent
               /\ hnd' = hnd
     /\ resp'.sent # resp.sent => Complete(hnd'.req)]_vars

\* a request with a codeContext and no apiKey was answered after an earlier
\* request had been sent to Gemini
C17_Witness ==
  /\ resp.last.asked = "POST {\"apiKey\": \"\", \"codeContext\": \"\"}"
  /\ resp.last.status = 400 /\ resp.last.error = "API Key is required"
  /\ resp.sent = 1 /\ resp.answered = 1

(***************************************************************************)
(* C18                                                                     *)
(***************************************************************************)
\* the paths of the supported blobs of a tree, in tree order
RECURSIVE SupportedInOrder(_)
SupportedInOrder(tree) ==
  IF tree = <<>> THEN <<>>
  ELSE (IF SupportedBlob(Head(tree)) THEN <<Head(tree).path>> ELSE <<>>)
         \o SupportedInOrder(Tail(tree))

C18_AbortBeforeContent ==
  /\ cb.pc = "failed" => cb.requests = <<>> /\ ~cb.result[1].success
  /\ Cloned =>
       /\ Len(cb.requests) = Len(SliceFirst(FilterSelected(cb.tree), MaxFetch))
       /\ \A i \in 1..Len(cb.requests) :
            cb.requests[i] = FilterSelected(cb.tree)[i].path
       /\ cb.result[1].success

\* the tree request was answered 403 and the clone threw with no content
\* request issued
C18_TreeRequestRefused ==
  /\ cb.pc = "failed" /\ cb.branch # "" /\ cb.requests = <<>>
  /\ cb.result[1].error = "GitHub API rate limit exceeded. Please try again later."

\* a clone that returned success for a tree with a supported blob and asked
\* for no content
C18_SupportedBlobNeverRequested ==
  /\ Cloned /\ cb.result[1].success
  /\ cb.tree = <<TreeItem("main.go", "blob", 49999)>>
  /\ cb.requests = <<>>

(***************************************************************************)
(* C19                                                                     *)
(***************************************************************************)
\* the 0-based positions of the tests of a list that are 'running'
RunningTests(tests) ==
  {k \in 0..(Len(tests) - 1) : tests[k + 1].status = "running"}

\* a run of runAllTests is between its click and its end
InRun == runAll.pc # "idle"

\* progress values compared as fractions
ProgressAtMost(p, q) == p[1] * q[2] <= q[1] * p[2]

\* C19, the states of a run: at most one test is 'running'; when test i is
\* 'running' the tests before it are 'passed' and the list shown is the
\* list of the run; after test i the progress is (i + 1) / n * 100.
C19_OneAfterAnother ==
  /\ Cardinality(RunningTests(testCases)) <= 1
  /\ InRun =>
       /\ isRunning
       /\ \A k \in 0..(runAll.i - 1) :
            runAll.updatedTests[k + 1].status = "passed"
       /\ runAll.pc = "awaitExec" =>
            /\ testCases = runAll.updatedTests
            /\ RunningTests(testCases) = {runAll.i}
       /\ runAll.pc = "delay" =>
            /\ RunningTests(runAll.updatedTests) = {}
            /\ runAll.updatedTests[runAll.i + 1].status = "passed"
            /\ progress = <<(runAll.i + 1) * 100, Len(runAll.updatedTests)>>

\* one step of the program as C19 describes the run
C19_Step ==
  /\ C19_OneAfterAnother'
  \* the run starts with test 0; the later tests keep their status
  /\ (~InRun /\ InRun') =>
       /\ runAll'.i = 0
       /\ Len(runAll'.updatedTests) = Len(testCases)
       /\ \A k \in 1..(Len(testCases) - 1) :
            runAll'.updatedTests[k + 1].status = testCases[k + 1].status
  \* test i + 1 follows test i; the tests after the running one keep their
  \* status
  /\ (InRun /\ InRun') =>
       /\ runAll'.i \in {runAll.i, runAll.i + 1}
       /\ Len(runAll'.updatedTests) = Len(runAll.updatedTests)
       /\ \A k \in (runAll'.i + 1)..(Len(runAll.updatedTests) - 1) :
            runAll'.updatedTests[k + 1].status
              = runAll.updatedTests[k + 1].status
       /\ ProgressAtMost(progress, progress')
  \* the run ends after the last test with the progress at 100
  /\ (InRun /\ ~InRun') =>
       /\ runAll.i + 1 = Len(runAll.updatedTests)
       /\ progress' = progress
       /\ progress'[1] = 100 * progress'[2]
       /\ ~isRunning'

\* C19: runAllTests executes the test cases one after another in list
\* order: at most one test is 'running', test i becomes 'running' only
\* after tests 0..i-1 are 'passed', the tests after i keep the status they
\* had before the run, and the progress after test i is (i + 1) / n * 100,
\* never decreases during the run and is 100 when the run ends.
C19_SequentialRun == [][C19_Step]_vars

\* no test of the list evaluates to a value JSON.stringify throws on
Serialisable(tests) ==
  \A k \in 1..Len(tests) :
    ~JSONstringifyThrows(ExecutionOf(tests[k], 0).result)

AllSerialisable ==
  Serialisable(testCases) /\ (InRun => Serialisable(runAll.updatedTests))

\* C19 for the lists whose results JSON.stringify accepts
C19_SequentialRunSerialisable ==
  [][(AllSerialisable /\ AllSerialisable') => C19_Step]_vars

\* a test that runSingleTest left 'running' and the first test of a run
\* are 'running' together
C19_TwoRunning ==
  /\ isRunning /\ runAll.pc = "awaitExec" /\ runAll.i = 0
  /\ RunningTests(testCases) = {0, 1}

\* the second of two tests is 'running' after the first one 'passed', with
\* the progress at 50
C19_Witness ==
  /\ runAll.pc = "awaitExec" /\ runAll.i = 1
  /\ Len(testCases) = 2
  /\ testCases[1].status = "passed" /\ testCases[2].status = "running"
  /\ progress = <<100, 2>>

\* a run of two tests has ended with the progress at 100
C19_WitnessEnd ==
  /\ ~InRun /\ ~isRunning /\ toast = "Test Execution Complete"
  /\ Len(testCases) = 2 /\ progress = <<200, 2>>
  /\ \A k \in 1..2 : testCases[k].status = "passed"

(***************************************************************************)
(* C20                                                                     *)
(***************************************************************************)
\* the event loop runs a continuation that is ready: the microtask after
\* executeTest and the callback of the 500 ms timer
SpecRunnerFair ==
  /\ SpecRunner
  /\ WF_vars(RunAllAfterExec)
  /\ WF_vars(RunAllAfterDelay)
  /\ WF_vars(RunSingleAfterExec)

\* C20: whatever the test cases are, a run of runAllTests finishes:
\* isRunning, true from the start of the run, becomes false, with no test
\* left in status 'running'.
C20_RunFinishes ==
  isRunning ~> (~isRunning /\ RunningTests(testCases) = {})

\* executeTest resolves with a value for every test of the list, and no
\* call of runAllTests is pending unless isRunning is true
C20_ExecuteTestResolves ==
  /\ InRun => isRunning
  /\ runAll.pc = "awaitExec" =>
       /\ runAll.execution.duration \in Durations
       /\ runAll.execution.error # NoError =>
            runAll.execution.result = JsNull

\* runAllTests has ended by the TypeError of JSON.stringify: isRunning is
\* true with no call pending and the test is left 'running'
C20_RunAbandoned ==
  /\ isRunning /\ ~InRun /\ single.pc = "idle"
  /\ Len(testCases) = 1 /\ testCases[1].code = "10n"
  /\ testCases[1].status = "running"

\* C20 for the lists whose results JSON.stringify accepts: the step that
\* ends the run makes isRunning false and leaves no test 'running'
C20_SerialisableRunEnds ==
  [][(AllSerialisable /\ InRun /\ ~InRun') =>
       (~isRunning' /\ RunningTests(testCases') = {})]_vars


(***************************************************************************)
(* C21                                                                     *)
(***************************************************************************)
\* C21: resetTests makes every test 'pending' with result, error and
\* duration cleared and sets the progress and the current test to 0; it
\* keeps id, name, input, expected and code of every test and the length
\* and order of the list; a second reset changes nothing.
C21_ResetClears ==
  [][ResetClick =>
       /\ Len(testCases') = Len(testCases)
       /\ \A k \in 1..Len(testCases) :
            /\ testCases'[k].status = "pending"
            /\ testCases'[k].result = JsUndefined
            /\ testCases'[k].error = NoError
            /\ testCases'[k].duration = NoDuration
            /\ testCases'[k].id = testCases[k].id
            /\ testCases'[k].name = testCases[k].name
            /\ testCases'[k].input = testCases[k].input
            /\ testCases'[k].expected = testCases[k].expected
            /\ testCases'[k].code = testCases[k].code
       /\ progress'[1] = 0 /\ currentTest' = 0
       /\ ResetTests(testCases') = testCases'
       /\ ~isRunning' /\ runAll' = Idle]_vars

\* a list of two tests is 'pending' again, with the progress and the
\* current test at 0, after a run of both had completed
C21_Witness ==
  /\ toast = "Test Execution Complete"
  /\ Len(testCases) = 2 /\ testCases[1].id # testCases[2].id
  /\ \A k \in 1..2 : testCases[k].status = "pending" /\ ~HasRun(testCases[k])
  /\ progress = <<0, 1>> /\ currentTest = 0

(***************************************************************************)
(* C22                                                                     *)
(***************************************************************************)
\* handleGenerateTests is between its request and the answer
Generating == gen.pc = "waiting"

\* what a click on Generate can change: the inputs read, the toast and the
\* pending request (a click that changes none of them is no step)
GenerateClickEffect == form' # form \/ gen' # gen \/ toast' # toast

\* the lists a response can be converted to, computed once
ConvertedLists == {GeneratedLists[r] : r \in RunnerResponses}

\* C22: handleGenerateTests with an empty key or a blank code input sends
\* no request and leaves testCases unchanged, the key being tested first;
\* when the request fails testCases is unchanged; on success testCases is
\* replaced by the converted cases, all 'pending' without a result; when
\* the handler ends isGenerating is false.
C22_ListChangedOnSuccessOnly ==
  [][/\ (GenerateClickEffect /\ GenerateClick) =>
          /\ testCases' = testCases
          /\ form'.geminiKey = "" =>
               toast' = "API Key Required" /\ ~Generating' /\ ~isGenerating'
          /\ (form'.geminiKey # "" /\ form'.codeInput \in {"", " "}) =>
               toast' = "Code Required" /\ ~Generating' /\ ~isGenerating'
          /\ (form'.geminiKey # "" /\ form'.codeInput \notin {"", " "}) =>
               Generating' /\ isGenerating'
     /\ GenerateReject => testCases' = testCases
     /\ (Generating /\ ~Generating') =>
          /\ ~isGenerating'
          /\ \/ toast' = "Generation Failed" /\ testCases' = testCases
             \/ /\ toast' = "Tests Generated!"
                /\ testCases' \in ConvertedLists
                /\ \A k \in 1..Len(testCases') :
                     /\ testCases'[k].status = "pending"
                     /\ testCases'[k].result = JsUndefined]_vars

\* a failed generation has left a list with a test that was run
C22_Witness ==
  /\ toast = "Generation Failed" /\ ~isGenerating /\ ~Generating
  /\ Len(testCases) = 2
  /\ testCases[1].status = "passed" /\ testCases[2].status = "pending"

\* a blank code input with a key was turned away while a list was shown
C22_WitnessBlankCode ==
  /\ toast = "Code Required" /\ form.codeInput = " " /\ form.geminiKey = "x"
  /\ ~isGenerating /\ testCases # <<>>

(***************************************************************************)
(* executeTest on the arithmetic mocks                                     *)
(***************************************************************************)
MaxOperand == 3     \* the operands range over -MaxOperand..MaxOperand

Operands == (0 - MaxOperand)..MaxOperand

ArithmeticCodes == {"calculateSum(2, 3)", "calculateProduct(2, 3)"}

InitArithmetic ==
  /\ fnArg \in [code : ArithmeticCodes,
                input : {JsObjAB(a, b) : a \in Operands, b \in Operands}]
  /\ fnOut = <<>>
  /\ IdleRunner /\ IdleClone /\ IdleGo

NextArithmetic == ExecuteTestCall

SpecArithmetic == InitArithmetic /\ [][NextArithmetic]_vars

(***************************************************************************)
(* C23                                                                     *)
(***************************************************************************)
\* the value the named operation has on the input {a, b}
NamedOperation(code, input) ==
  IF code = "calculateSum(2, 3)" THEN JsNum(input.n + input.m)
  ELSE JsNum(input.n * input.m)

\* C23: for a test whose code calls calculateSum (calculateProduct) and
\* whose input is {a, b}, the execution result is a + b (a * b), for all
\* integers a and b of the range.
C23_ArithmeticMocks ==
  Len(fnOut) = 1 =>
    /\ fnOut[1].error = NoError
    /\ fnOut[1].result = NamedOperation(fnArg.code, fnArg.input)

\* C23 for the operands that input.a || input and input.b || 1 pass on: a
\* not 0 and, for the product, b not 0
C23_NonZeroOperands ==
  (/\ Len(fnOut) = 1
   /\ fnArg.input.n # 0
   /\ fnArg.code = "calculateProduct(2, 3)" => fnArg.input.m # 0) =>
    /\ fnOut[1].error = NoError
    /\ fnOut[1].result = NamedOperation(fnArg.code, fnArg.input)

\* the sum of {a: 0, b: 2} is the text "[object Object]2"
C23_ZeroPlusTwo ==
  /\ Len(fnOut) = 1
  /\ fnArg = [code |-> "calculateSum(2, 3)", input |-> JsObjAB(0, 2)]
  /\ fnOut[1].result = JsStr("[object Object]2")

\* the product of {a: -2, b: 0} is -2
C23_ProductWithZero ==
  /\ Len(fnOut) = 1
  /\ fnArg = [code |-> "calculateProduct(2, 3)", input |-> JsObjAB(0 - 2, 0)]
  /\ fnOut[1].result = JsNum(0 - 2)

(***************************************************************************)
(* C24                                                                     *)
(***************************************************************************)
\* during a run the list shown differs from the list of the loop only when
\* handleGenerateTests has installed a new one: the reset and the single
\* run are disabled
ListInstalledDuringRun == InRun /\ testCases # runAll.updatedTests

\* C24: a list that handleGenerateTests installs while runAllTests is in
\* progress is not replaced by the loop: only another generation changes
\* it, so it is the list held when both have finished.
C24_GeneratedListKept ==
  [][(ListInstalledDuringRun /\ ~GenerateResolve) =>
       testCases' = testCases]_vars

\* C24 for a list installed during the delay after the last test
C24_KeptAfterLastTest ==
  [][(/\ ListInstalledDuringRun
      /\ runAll.i + 1 = Len(runAll.updatedTests)
      /\ ~GenerateResolve) =>
       testCases' = testCases]_vars

\* the loop shows its own list of two tests again, the second one
\* 'running', after a list of one test had been installed
C24_SnapshotShownAgain ==
  /\ runAll.pc = "awaitExec" /\ runAll.i = 1
  /\ testCases = runAll.updatedTests /\ Len(testCases) = 2
  /\ toast = "Tests Generated!" /\ ~isGenerating
  /\ testCases[1].status = "passed"

(***************************************************************************)
(* C25                                                                     *)
(***************************************************************************)
\* handler h of cloneRepoHandler returns in this step after it had passed
\* the checks of its request
CloneHandlerReturns(h) == hnd[h].pc # "free" /\ hnd'[h].pc = "free"

\* C25: when cloneRepoHandler returns, with success, a failed clone, a
\* failure to read the files or a failure to write the context file, the
\* clone directory repos/<owner>-<repo> does not exist.
C25_CloneDirectoryRemoved ==
  [][\A h \in 1..MaxHandlers :
       CloneHandlerReturns(h) =>
         disk'[ClonePath(hnd[h].owner, hnd[h].repo)].kind = "none"]_vars

\* C25 for the handler that answers 200: the clone directory is gone and
\* the context file is kept
C25_RemovedOnSuccess ==
  [][\A h \in 1..MaxHandlers :
       (CloneHandlerReturns(h) /\ resp'.last.status = 200) =>
         /\ disk'[ClonePath(hnd[h].owner, hnd[h].repo)].kind = "none"
         /\ disk'[GoContextPath(hnd[h].owner, hnd[h].repo)].kind = "file"]_vars

\* no handler is running, the last one answered that the context file could
\* not be saved, and the clone directory of its repository is still there
C25_DirectoryLeftBehind ==
  /\ \A h \in 1..MaxHandlers : hnd[h].pc = "free"
  /\ resp.last.handler = "clone" /\ resp.last.asked = "o/r"
  /\ resp.last.error = "Failed to save context file"
  /\ disk[ClonePath("o", "r")].kind = "dir"

(***************************************************************************)
(* C26                                                                     *)
(***************************************************************************)
\* handler h is cloning into its directory or reading from it and takes no
\* step, while handler k takes one
WorkingWhileOtherSteps(h, k) ==
  /\ h # k
  /\ hnd[h].pc \in {"clone", "read"} /\ hnd'[h] = hnd[h]
  /\ hnd'[k] # hnd[k]

\* the repository handler k works on before or after its step
SameRepository(h, k) ==
  \/ hnd[k].pc # "free" /\ hnd[k].owner = hnd[h].owner
       /\ hnd[k].repo = hnd[h].repo
  \/ hnd'[k].pc # "free" /\ hnd'[k].owner = hnd[h].owner
       /\ hnd'[k].repo = hnd[h].repo

\* C26: of two concurrent clone requests for the same owner/repo neither
\* removes or replaces the clone directory while the other is cloning into
\* it or reading from it, and none fails to read its files.
C26_NoInterference ==
  [][/\ \A h, k \in 1..MaxHandlers :
          (WorkingWhileOtherSteps(h, k) /\ SameRepository(h, k)) =>
            disk'[ClonePath(hnd[h].owner, hnd[h].repo)]
              = disk[ClonePath(hnd[h].owner, hnd[h].repo)]
     /\ \A h \in 1..MaxHandlers :
          (hnd[h].pc = "read" /\ hnd'[h].pc = "free") =>
            resp'.last.error # "Failed to read repository files"]_vars

\* C26 for two handlers whose clone directories differ
C26_OtherDirectoryUntouched ==
  [][\A h, k \in 1..MaxHandlers :
       (/\ WorkingWhileOtherSteps(h, k)
        /\ \A p \in {hnd[k], hnd'[k]} :
             p.pc # "free" =>
               ClonePath(p.owner, p.repo)
                 # ClonePath(hnd[h].owner, hnd[h].repo)) =>
         disk'[ClonePath(hnd[h].owner, hnd[h].repo)]
           = disk[ClonePath(hnd[h].owner, hnd[h].repo)]]_vars

\* a request for o/r was answered that the files could not be read: the
\* other request for o/r had removed the directory
C26_ReadFailed ==
  /\ resp.last.handler = "clone" /\ resp.last.asked = "o/r"
  /\ resp.last.error = "Failed to read repository files"
  /\ \E k \in 1..MaxHandlers :
       hnd[k].pc = "clone" /\ hnd[k].owner = "o" /\ hnd[k].repo = "r"

(***************************************************************************)
(* C27                                                                     *)
(***************************************************************************)
\* handler h takes a step while it serves a clone request for repository q
ServesStep(h, q) ==
  /\ hnd'[h] # hnd[h]
  /\ \E s \in {hnd[h], hnd'[h]} : s.pc # "free" /\ <<s.owner, s.repo>> = q

\* the clone directory and the context file of p are what they were
StorageUnchanged(p) ==
  /\ disk'[ClonePath(p[1], p[2])] = disk[ClonePath(p[1], p[2])]
  /\ disk'[GoContextPath(p[1], p[2])] = disk[GoContextPath(p[1], p[2])]

\* the context request for p is answered with a context
ContextReturned(p) == ContextAsked(p[1], p[2]) /\ resp.last.status = 200

\* C27: distinct (owner, repo) pairs have distinct clone directories and
\* context files, so no step of a clone of one repository changes the
\* directory or the context file of another, and a context request for a
\* repository is never answered with the context of a different one.
C27_DistinctStorage ==
  [][/\ \A h \in 1..MaxHandlers : \A p, q \in GoRepos :
          (p # q /\ ServesStep(h, q)) => StorageUnchanged(p)
     /\ \A p \in GoRepos :
          ContextReturned(p)' =>
            /\ resp'.latest[p] # <<>>
            /\ resp'.last.context = resp'.latest[p][1]]_vars

\* C27 for the pairs whose names contain no '-'
C27_DistinctStorageNoDash ==
  [][/\ \A h \in 1..MaxHandlers : \A q \in GoRepos :
          (<<"o", "r">> # q /\ ServesStep(h, q)) =>
            StorageUnchanged(<<"o", "r">>)
     /\ \A h \in 1..MaxHandlers : \A p \in GoRepos :
          (<<"o", "r">> # p /\ ServesStep(h, <<"o", "r">>)) =>
            StorageUnchanged(p)
     /\ ContextReturned(<<"o", "r">>)' =>
          /\ resp'.latest[<<"o", "r">>] # <<>>
          /\ resp'.last.context = resp'.latest[<<"o", "r">>][1]]_vars

\* a/b-c and a-b/c were both cloned, the contexts differ, and the context
\* file of a/b-c holds the context of a-b/c
C27_ContextOverwritten ==
  /\ resp.latest[<<"a", "b-c">>] # <<>>
  /\ resp.latest[<<"a-b", "c">>] # <<>>
  /\ resp.latest[<<"a", "b-c">>] # resp.latest[<<"a-b", "c">>]
  /\ disk[GoContextPath("a", "b-c")].text = resp.latest[<<"a-b", "c">>][1]
  /\ ContextReturned(<<"a", "b-c">>)
  /\ resp.last.context = resp.latest[<<"a-b", "c">>][1]

(***************************************************************************)
(* The dashboard's URL check before a clone request                        *)
(***************************************************************************)
\* String.prototype.replace(pattern, by) with a text pattern: the first
\* occurrence only
ReplaceFirst(s, pattern, by) ==
  IF Index(s, pattern) = -1 THEN s
  ELSE Slice(s, 0, Index(s, pattern)) \o by
         \o Slice(s, Index(s, pattern) + Len(pattern), Len(s))

\* url.match(/github\.com\/([^\/]+)\/([^\/]+)/): the leftmost "github.com/"
\* followed by a non-empty part, '/', and a non-empty part that ends at the
\* next '/' or at the end of the text; <<owner, repo>> or <<>> for null
MatchOwnerRepoPrefix(url) ==
  LET host == "github.com/"
      rest(i) == Split(Slice(url, i + Len(host), Len(url)), "/")
      at == {i \in 0..(Len(url) - Len(host)) :
               /\ OccursAt(url, host, i)
               /\ Len(rest(i)) >= 2
               /\ rest(i)[1] # "" /\ rest(i)[2] # ""}
  IN  IF at = {} THEN <<>> ELSE SubSeq(rest(Min(at)), 1, 2)

\* api.ts
parseGitHubUrl(url) ==
  LET match == MatchOwnerRepoPrefix(url)
  IN  IF match = <<>> THEN InvalidURL
      ELSE Parsed(TrimSpace(match[1]),
                  TrimSpace(ReplaceFirst(match[2], ".git", "")))

\* texts the dashboard's expression matches beyond the documented formats
DashboardTexts ==
  {"https://github.com/o/r/pulls", "https://github.com/o/my.github",
   "https://github.com/o/r?tab=readme", "https://github.com/o/r.git/",
   "https://github.com/o/x.git.git", "https://github.com/o/.git",
   "git@github.com:o/r.git"}

DashboardUrlInputs ==
  UrlInputs
  \cup {[url |-> t, format |-> "other", owner |-> "", repo |-> ""] :
          t \in DashboardTexts}

InitDashboardUrl ==
  /\ fnArg \in DashboardUrlInputs
  /\ fnOut = NoCalls
  /\ IdleRunner /\ IdleClone /\ IdleGo

\* handleCloneRepository up to the request: an empty repoUrl and a null
\* repoInfo end the handler with a toast
HandleCloneRepositoryCheck ==
  /\ fnOut.ts = <<>>
  /\ fnOut' = [fnOut EXCEPT !.ts =
                 <<IF fnArg.url = "" THEN InvalidURL
                   ELSE parseGitHubUrl(fnArg.url)>>]
  /\ UNCHANGED <<fnArg, cb, disk, hnd, resp>>
  /\ UNCHANGED runnerVars

\* the request was sent: cloneRepoHandler parses the same repoUrl
CloneRepoHandlerParse ==
  /\ Len(fnOut.ts) = 1 /\ fnOut.ts[1].valid
  /\ fnOut.go = <<>>
  /\ fnOut' = [fnOut EXCEPT !.go = <<parseGitHubURL(fnArg.url)>>]
  /\ UNCHANGED <<fnArg, cb, disk, hnd, resp>>
  /\ UNCHANGED runnerVars

NextDashboardUrl == HandleCloneRepositoryCheck \/ CloneRepoHandlerParse

SpecDashboardUrl == InitDashboardUrl /\ [][NextDashboardUrl]_vars

(***************************************************************************)
(* C28                                                                     *)
(***************************************************************************)
\* the dashboard sent the request and the backend has parsed its repoUrl
RequestParsed == Len(fnOut.ts) = 1 /\ Len(fnOut.go) = 1

\* C28: a URL the dashboard's parseGitHubUrl accepts is accepted by the
\* backend's parseGitHubURL with the same owner and repo: the request is not
\* rejected as an invalid URL and the repository the dashboard shows is the
\* one the backend cloned.
C28_BackendAgrees ==
  RequestParsed =>
    /\ fnOut.go[1].valid
    /\ fnOut.go[1].owner = fnOut.ts[1].owner
    /\ fnOut.go[1].repo = fnOut.ts[1].repo

\* C28 for the plain, trailing-slash, .git, /tree/ and /blob/ forms of
\* repositories not named tree or blob
C28_DocumentedFormatsAgree ==
  (RequestParsed /\ fnArg.format # "other"
     /\ fnArg.repo \notin {"tree", "blob"}) =>
    fnOut.go[1] = Parsed(fnArg.owner, fnArg.repo) /\ fnOut.ts[1] = fnOut.go[1]

\* the dashboard accepted the URL of a repository's page and the backend
\* rejected it
C28_RejectedByBackend ==
  /\ fnArg.url = "https://github.com/o/r/pulls"
  /\ RequestParsed
  /\ fnOut.ts[1] = Parsed("o", "r")
  /\ ~fnOut.go[1].valid

\* the dashboard shows o/myhub and the backend cloned o/my.github
C28_OtherRepositoryShown ==
  /\ RequestParsed
  /\ fnOut.ts[1] = Parsed("o", "myhub")
  /\ fnOut.go[1] = Parsed("o", "my.github")

====
